---------------------------- MODULE Spec2Model ----------------------------
(***************************************************************************)
(* A model of go-darwin/hdiutil: the typed option encoders, the six verb   *)
(* operations that build an argument vector and run the external tool,     *)
(* and the device-node helpers.                                            *)
(*                                                                         *)
(* Go strings are TLA+ strings; a []string is a sequence of strings.  The  *)
(* sources hold two revisions of the flag helpers: the current one takes   *)
(* (name, value) (unnamed/part_007 lines 33-59) and the previous one takes *)
(* (value, name) (flag.go).  Each call site is modelled against the helper *)
(* its argument types select; the previous revision's helpers carry the    *)
(* suffix Prev.                                                            *)
(***************************************************************************)
EXTENDS Integers, Sequences, FiniteSets, TLC

(***************************************************************************)
(* Bounds of the model.                                                    *)
(***************************************************************************)
MaxFlags == 3      \* longest variadic option list a caller supplies
MaxChunks == 3     \* longest process output / device string, in chunks
MaxKeys == 2       \* most entries of a key/value map option
MaxCallers == 2    \* goroutines calling the package at the same time

(***************************************************************************)
(* Standard-library functions the code calls.                              *)
(***************************************************************************)
Digits == <<"0", "1", "2", "3", "4", "5", "6", "7", "8", "9">>

DigitChars == {Digits[i] : i \in 1..10}

RECURSIVE FormatUint(_)
FormatUint(n) ==
    IF n < 10 THEN Digits[n + 1]
    ELSE FormatUint(n \div 10) \o Digits[(n % 10) + 1]

\* strconv.Itoa: base-10 text of an int, "-" first for a negative one.
Itoa(i) == IF i < 0 THEN "-" \o FormatUint(-i) ELSE FormatUint(i)

\* s[lo:hi] of Go (0-based, hi exclusive).
Slice(s, lo, hi) == SubSeq(s, lo + 1, hi)

HasPrefix(s, prefix) ==
    Len(s) >= Len(prefix) /\ Slice(s, 0, Len(prefix)) = prefix

RECURSIVE IndexFrom(_, _, _)
IndexFrom(s, substr, i) ==
    IF i + Len(substr) > Len(s) THEN -1
    ELSE IF Slice(s, i, i + Len(substr)) = substr THEN i
    ELSE IndexFrom(s, substr, i + 1)

\* strings.Index: 0-based index of the first occurrence, -1 when absent.
Index(s, substr) == IndexFrom(s, substr, 0)

\* strings.Replace(s, old, new, 1) for a non-empty old.
Replace1(s, old, new) ==
    LET i == Index(s, old)
    IN  IF i < 0 THEN s
        ELSE Slice(s, 0, i) \o new \o Slice(s, i + Len(old), Len(s))

\* strings.TrimPrefix
TrimPrefix(s, prefix) ==
    IF HasPrefix(s, prefix) THEN Slice(s, Len(prefix), Len(s)) ELSE s

(***************************************************************************)
(* The flag helpers, current revision: (name, value).                      *)
(***************************************************************************)
\* boolFlag without the test of b
boolFlagAlways(name, b) == <<"-" \o name>>

boolFlag(name, b) == IF b THEN <<"-" \o name>> ELSE <<>>

\* boolNoFlag that says nothing for false
boolNoFlagSilent(name, b) == IF b THEN <<"-" \o name>> ELSE <<>>

boolNoFlag(name, b) == IF b THEN <<"-" \o name>> ELSE <<"-no" \o name>>

\* stringFlag with its two parameters taken in the other order
stringFlagSwapped(name, s) == <<"-" \o s, name>>

stringFlag(name, s) == <<"-" \o name, s>>

stringSliceFlag(name, s) == <<"-" \o name>> \o s

intFlag(name, i) == <<"-" \o name, Itoa(i)>>

(***************************************************************************)
(* The flag helpers, previous revision: (value, name).                     *)
(***************************************************************************)
boolFlagPrev(b, name) == IF b THEN <<"-" \o name>> ELSE <<>>

boolNoFlagPrev(b, name) == IF b THEN <<"-" \o name>> ELSE <<"-no" \o name>>

stringFlagPrev(s, name) == <<"-" \o name, s>>

stringSliceFlagPrev(s, name) == <<"-" \o name>> \o s

intFlagPrev(s, name) == <<"-" \o name, Itoa(s)>>

(***************************************************************************)
(* Enumeration constants (1 << iota) and their display names.              *)
(***************************************************************************)
AES128 == 1
AES256 == 2

EncryptionType_String(e) ==
    CASE e = AES128 -> "AES-128"
      [] e = AES256 -> "AES-256"
      [] OTHER -> "EncryptionType(" \o Itoa(e) \o ")"

CreateUDIF == 1
CreateSPARSE == 2
CreateSPARSEBUNDLE == 4

createType_String(c) ==
    CASE c = CreateUDIF -> "UDIF"
      [] c = CreateSPARSE -> "SPARSE"
      [] c = CreateSPARSEBUNDLE -> "SPARSEBUNDLE"
      [] OTHER -> ""

CreateHFSPlus == 1
CreateHFSPlusJ == 2
CreateJHFSPlus == 4
CreateHFSX == 8
CreateJHFSPlusX == 16
CreateAPFS == 32
CreateFAT32 == 64
CreateExFAT == 128
CreateUDF == 256

\* convertFormot: 1 << iota
ConvertUDRW == 1
ConvertUDRO == 2
ConvertUDCO == 4
ConvertUDZO == 8
ConvertULFO == 16
ConvertUDBZ == 32
ConvertUDTO == 64
ConvertUDSP == 128
ConvertUDSB == 256
ConvertUFBI == 512
ConvertUDRo == 1024
ConvertUDCo == 2048
ConvertRdWr == 4096
ConvertRdxx == 8192
ConvertROCo == 16384
ConvertRken == 32768
ConvertDC42 == 65536

\* createFS.String with the HFS+J arm left as a copy of the HFS+ arm
createFS_StringCopied(c) ==
    CASE c = CreateHFSPlus -> "HFS+"
      [] c = CreateHFSPlusJ -> "HFS+"
      [] c = CreateJHFSPlus -> "JHFS+"
      [] c = CreateHFSX -> "HFSX"
      [] c = CreateJHFSPlusX -> "JHFS+X"
      [] c = CreateAPFS -> "APFS"
      [] c = CreateFAT32 -> "FAT32"
      [] c = CreateExFAT -> "ExFAT"
      [] c = CreateUDF -> "UDF"
      [] OTHER -> ""

createFS_String(c) ==
    CASE c = CreateHFSPlus -> "HFS+"
      [] c = CreateHFSPlusJ -> "HFS+J"
      [] c = CreateJHFSPlus -> "JHFS+"
      [] c = CreateHFSX -> "HFSX"
      [] c = CreateJHFSPlusX -> "JHFS+X"
      [] c = CreateAPFS -> "APFS"
      [] c = CreateFAT32 -> "FAT32"
      [] c = CreateExFAT -> "ExFAT"
      [] c = CreateUDF -> "UDF"
      [] OTHER -> ""

(***************************************************************************)
(* An option value is a record [type, val]: the Go type and its payload.   *)
(* A map payload is a function from its keys to its values.  Ranging over  *)
(* a Go map visits the keys in an order the runtime picks anew each time:  *)
(* the encoders of the map types take that order as the argument ord, a    *)
(* sequence holding each key once.                                         *)
(***************************************************************************)
Opt(t, v) == [type |-> t, val |-> v]

\* the range loop with arg = arg + k + "=" + v: every entry is kept
RECURSIVE rangeKeyValueJoined(_, _, _)
rangeKeyValueJoined(m, ord, arg) ==
    IF ord = <<>> THEN arg
    ELSE rangeKeyValueJoined(m, Tail(ord),
                             arg \o (Head(ord) \o "=" \o m[Head(ord)]))

\* for k, v := range m { arg = k + "=" + v }
RECURSIVE rangeKeyValue(_, _, _)
rangeKeyValue(m, ord, arg) ==
    IF ord = <<>> THEN arg
    ELSE rangeKeyValue(m, Tail(ord), Head(ord) \o "=" \o m[Head(ord)])

Srcimagekey_commonFlag(s, ord) ==
    stringFlag("srcimagekey", rangeKeyValue(s, ord, ""))

\* Tgtimagekey.commonFlag as a copy of Srcimagekey.commonFlag, name and all
Tgtimagekey_commonFlagCopied(t, ord) ==
    stringFlag("srcimagekey", rangeKeyValue(t, ord, ""))

Tgtimagekey_commonFlag(t, ord) ==
    stringFlag("tgtimagekey", rangeKeyValue(t, ord, ""))

Imagekey_commonFlag(i, ord) ==
    stringFlag("imagekey", rangeKeyValue(i, ord, ""))

\* for v := range a { arg = arg + strconv.Itoa(v) }: with one loop variable
\* a range over an array yields its indices, not its elements.
RECURSIVE rangeIndexItoa(_, _, _)
rangeIndexItoa(a, v, arg) ==
    IF v >= Len(a) THEN arg
    ELSE rangeIndexItoa(a, v + 1, arg \o Itoa(v))

AttachDrivekey_attachFlag(a) == stringFlag(a[1] \o "=" \o a[2], "drivekey")

AttachSection_attachFlag(a) == stringFlag(rangeIndexItoa(a, 0, ""), "section")

(***************************************************************************)
(* attachFlag() of every type that implements the attachFlag interface.    *)
(***************************************************************************)
hdiutil_attachFlag(o, ord) ==
    CASE o.type = "EncryptionType" ->
            stringFlag("encryption", EncryptionType_String(o.val))
      [] o.type = "plist" -> boolFlag("plist", o.val)
      [] o.type = "puppetstrings" -> boolFlag("puppetstrings", o.val)
      [] o.type = "Srcimagekey" -> Srcimagekey_commonFlag(o.val, ord)
      [] o.type = "Tgtimagekey" -> Tgtimagekey_commonFlag(o.val, ord)
      [] o.type = "Imagekey" -> Imagekey_commonFlag(o.val, ord)
      [] o.type = "stdinpass" -> boolFlag("stdinpass", o.val)
      [] o.type = "Recover" -> stringFlag("recover", o.val)
      [] o.type = "Shadow" -> stringFlag("shadow", o.val)
      [] o.type = "verbose" -> boolFlag("verbose", o.val)
      [] o.type = "quiet" -> boolFlag("quiet", o.val)
      [] o.type = "debug" -> boolFlag("debug", o.val)

attach_attachFlag(o) ==
    CASE o.type = "attachKernel" -> boolNoFlag("kernel", o.val)
      [] o.type = "attachNotRemovable" -> boolFlag("notremovable", o.val)
      [] o.type = "attachMount" -> stringFlag("mount", o.val)
      [] o.type = "attachNoMount" -> boolFlag("nomount", o.val)
      [] o.type = "AttachMountRoot" -> stringFlag("mountroot", o.val)
      [] o.type = "AttachMountRandom" -> stringFlag("mountrandom", o.val)
      [] o.type = "AttachMountPoint" -> stringFlag("mountpoint", o.val)
      [] o.type = "attachNoBrowse" -> boolFlag("nobrowse", o.val)
      [] o.type = "attachOwners" -> stringFlag("owners", o.val)
      [] o.type = "AttachDrivekey" -> AttachDrivekey_attachFlag(o.val)
      [] o.type = "AttachSection" -> AttachSection_attachFlag(o.val)
      [] o.type = "attachVerify" -> boolNoFlag("verify", o.val)
      [] o.type = "attachIgnoreBadChecksums" ->
            boolNoFlag("ignoreBadChecksums", o.val)
      [] o.type = "attachIdme" -> boolNoFlag("idme", o.val)
      [] o.type = "atachIdmeReveal" -> boolNoFlag("idmereveal", o.val)
      [] o.type = "attachIdmeTrash" -> boolNoFlag("idmetrash", o.val)
      [] o.type = "attachAutoOpen" -> boolNoFlag("autoopen", o.val)
      [] o.type = "attachAutoOpenRO" -> boolNoFlag("autoopenro", o.val)
      [] o.type = "attachAutoOpenRW" -> boolNoFlag("autoopenrw", o.val)
      [] o.type = "attachAutoFsck" -> boolNoFlag("autofsck", o.val)

HdiutilAttachTypes ==
    {"EncryptionType", "plist", "puppetstrings", "Srcimagekey",
     "Tgtimagekey", "Imagekey", "stdinpass", "Recover", "Shadow", "verbose",
     "quiet", "debug"}

AttachOnlyTypes ==
    {"attachKernel", "attachNotRemovable", "attachMount", "attachNoMount",
     "AttachMountRoot", "AttachMountRandom", "AttachMountPoint",
     "attachNoBrowse", "attachOwners", "AttachDrivekey", "AttachSection",
     "attachVerify", "attachIgnoreBadChecksums", "attachIdme",
     "atachIdmeReveal", "attachIdmeTrash", "attachAutoOpen",
     "attachAutoOpenRO", "attachAutoOpenRW", "attachAutoFsck"}

\* f.attachFlag() on an interface value: the method of f's dynamic type.
attachFlag(o, ord) ==
    IF o.type \in HdiutilAttachTypes THEN hdiutil_attachFlag(o, ord)
    ELSE attach_attachFlag(o)

\* The previous revision of the attach options (attach.go, second half),
\* written against the (value, name) helpers.
attachFlagPrev(o) ==
    CASE o.type = "attachKernel" -> boolNoFlagPrev(o.val, "kernel")
      [] o.type = "attachNotRemovable" -> boolFlagPrev(o.val, "notremovable")
      [] o.type = "attachMount" -> stringFlagPrev(o.val, "mount")
      [] o.type = "attachNoMount" -> boolFlagPrev(o.val, "nomount")
      [] o.type = "AttachMountRoot" -> stringFlagPrev(o.val, "mountroot")
      [] o.type = "AttachMountRandom" -> stringFlagPrev(o.val, "mountrandom")
      [] o.type = "AttachMountPoint" -> stringFlagPrev(o.val, "mountpoint")
      [] o.type = "attachNoBrowse" -> boolFlagPrev(o.val, "nobrowse")
      [] o.type = "attachOwners" -> stringFlagPrev(o.val, "owners")
      [] o.type = "AttachDrivekey" ->
            stringFlagPrev(o.val[1] \o "=" \o o.val[2], "drivekey")
      [] o.type = "AttachSection" ->
            stringFlagPrev(rangeIndexItoa(o.val, 0, ""), "section")
      [] o.type = "attachVerify" -> boolNoFlagPrev(o.val, "verify")
      [] o.type = "attachIgnoreBadChecksums" ->
            boolNoFlagPrev(o.val, "ignoreBadChecksums")
      [] o.type = "attachIdme" -> boolNoFlagPrev(o.val, "idme")
      [] o.type = "atachIdmeReveal" -> boolNoFlagPrev(o.val, "idmereveal")
      [] o.type = "attachIdmeTrash" -> boolNoFlagPrev(o.val, "idmetrash")
      [] o.type = "attachAutoOpen" -> boolNoFlagPrev(o.val, "autoopen")
      [] o.type = "attachAutoOpenRO" -> boolNoFlagPrev(o.val, "autoopenro")
      [] o.type = "attachAutoOpenRW" -> boolNoFlagPrev(o.val, "autoopenrw")
      [] o.type = "attachAutoFsck" -> boolNoFlagPrev(o.val, "autofsck")

(***************************************************************************)
(* sizeFlag() and createFlag().                                            *)
(***************************************************************************)
sizeFlag(o) ==
    CASE o.type = "CreateSize" -> stringFlag("size", o.val)
      [] o.type = "CreateSectors" -> intFlag("sectors", o.val)
      [] o.type = "CreateMegabytes" -> intFlag("megabytes", o.val)
      [] o.type = "CreateSrcfolder" -> stringFlag("srcfolder", o.val)
      [] o.type = "CreateSrcdir" -> stringFlag("srcdir", o.val)
      [] o.type = "CreateSrcdevice" -> stringFlag("srcdevice", o.val)

SizeTypes ==
    {"CreateSize", "CreateSectors", "CreateMegabytes", "CreateSrcfolder",
     "CreateSrcdir", "CreateSrcdevice"}

hdiutil_createFlag(o, ord) ==
    CASE o.type = "Srcimagekey" -> Srcimagekey_commonFlag(o.val, ord)
      [] o.type = "Tgtimagekey" -> Tgtimagekey_commonFlag(o.val, ord)
      [] o.type = "Imagekey" -> Imagekey_commonFlag(o.val, ord)
      [] o.type = "verbose" -> boolFlag("verbose", o.val)
      [] o.type = "quiet" -> boolFlag("quiet", o.val)
      [] o.type = "debug" -> boolFlag("debug", o.val)

create_createFlag(o) ==
    CASE o.type = "CreateAlign" -> intFlag("align", o.val)
      [] o.type = "createType" -> stringFlag("type", createType_String(o.val))
      [] o.type = "createFS" -> stringFlag("fs", createFS_String(o.val))
      [] o.type = "CreateVolname" -> stringFlag("volname", o.val)
      [] o.type = "CreateUID" -> intFlag("uid", o.val)
      [] o.type = "CreateGID" -> intFlag("gid", o.val)
      [] o.type = "CreateMode" -> stringFlag("mode", o.val)
      [] o.type = "createAutostretch" -> boolNoFlag("autostretch", o.val)
      [] o.type = "CreateStretch" -> intFlag("stretch", o.val)
      [] o.type = "CreateFSArgs" -> stringSliceFlag("fsargs", o.val)
      [] o.type = "CreateLayout" -> stringFlag("layout", o.val)
      [] o.type = "CreateLibrary" -> stringFlag("library", o.val)
      [] o.type = "CreatePartitionType" -> stringFlag("partitionType", o.val)
      [] o.type = "createOV" -> boolFlag("ov", o.val)
      [] o.type = "createAttach" -> boolFlag("attach", o.val)
      [] o.type = "CreateFormat" -> stringFlag("format", o.val)
      [] o.type = "CreateSegmentSize" -> intFlag("segmentSize", o.val)
      [] o.type = "createCrossdev" -> boolNoFlag("crossdev", o.val)
      [] o.type = "createScrub" -> boolNoFlag("scrub", o.val)
      [] o.type = "createAnyowners" -> boolNoFlag("anyowners", o.val)
      [] o.type = "createSkipunreadable" -> boolFlag("skipunreadable", o.val)
      [] o.type = "createAtomic" -> boolFlag("atomic", o.val)
      [] o.type = "CreateCopyuid" -> stringFlag("copyuid", o.val)

HdiutilCreateTypes ==
    {"Srcimagekey", "Tgtimagekey", "Imagekey", "verbose", "quiet", "debug"}

CreateOnlyTypes ==
    {"CreateAlign", "createType", "createFS", "CreateVolname", "CreateUID",
     "CreateGID", "CreateMode", "createAutostretch", "CreateStretch",
     "CreateFSArgs", "CreateLayout", "CreateLibrary", "CreatePartitionType",
     "createOV", "createAttach", "CreateFormat", "CreateSegmentSize",
     "createCrossdev", "createScrub", "createAnyowners",
     "createSkipunreadable", "createAtomic", "CreateCopyuid"}

createFlag(o, ord) ==
    IF o.type \in HdiutilCreateTypes THEN hdiutil_createFlag(o, ord)
    ELSE create_createFlag(o)

(***************************************************************************)
(* convertFlag(), verifyFlag(), detachFlag().                              *)
(***************************************************************************)
hdiutil_convertFlag(o, ord) ==
    CASE o.type = "EncryptionType" ->
            stringFlag("encryption", EncryptionType_String(o.val))
      [] o.type = "plist" -> boolFlag("plist", o.val)
      [] o.type = "puppetstrings" -> boolFlag("puppetstrings", o.val)
      [] o.type = "Srcimagekey" -> Srcimagekey_commonFlag(o.val, ord)
      [] o.type = "Tgtimagekey" -> Tgtimagekey_commonFlag(o.val, ord)
      [] o.type = "stdinpass" -> boolFlag("stdinpass", o.val)
      [] o.type = "Certificate" -> stringFlag("certificate", o.val)
      [] o.type = "Shadow" -> stringFlag("shadow", o.val)
      [] o.type = "verbose" -> boolFlag("verbose", o.val)
      [] o.type = "debug" -> boolFlag("debug", o.val)

convert_convertFlag(o) ==
    CASE o.type = "ConvertAlign" -> intFlag("align", o.val)
      [] o.type = "convertPmap" -> boolFlag("pmap", o.val)
      [] o.type = "ConvertSegmentSize" -> stringFlag("segmentSize", o.val)
      [] o.type = "ConvertTasks" -> intFlag("tasks", o.val)

HdiutilConvertTypes ==
    {"EncryptionType", "plist", "puppetstrings", "Srcimagekey",
     "Tgtimagekey", "stdinpass", "Certificate", "Shadow", "verbose", "debug"}

ConvertOnlyTypes ==
    {"ConvertAlign", "convertPmap", "ConvertSegmentSize", "ConvertTasks"}

convertFlag(o, ord) ==
    IF o.type \in HdiutilConvertTypes THEN hdiutil_convertFlag(o, ord)
    ELSE convert_convertFlag(o)

hdiutil_verifyFlag(o) ==
    CASE o.type = "EncryptionType" ->
            stringFlag("encryption", EncryptionType_String(o.val))
      [] o.type = "plist" -> boolFlag("plist", o.val)
      [] o.type = "puppetstrings" -> boolFlag("puppetstrings", o.val)
      [] o.type = "stdinpass" -> boolFlag("stdinpass", o.val)

verifyCache_verifyFlag(v) == boolFlagPrev(v, "force")

HdiutilVerifyTypes == {"EncryptionType", "plist", "puppetstrings", "stdinpass"}

verifyFlag(o) ==
    IF o.type \in HdiutilVerifyTypes THEN hdiutil_verifyFlag(o)
    ELSE verifyCache_verifyFlag(o.val)

hdiutil_detachFlag(o) ==
    CASE o.type = "verbose" -> boolFlag("verbose", o.val)
      [] o.type = "quiet" -> boolFlag("quiet", o.val)
      [] o.type = "debug" -> boolFlag("debug", o.val)

detachForce_detachFlag(d) == boolFlagPrev(d, "force")

HdiutilDetachTypes == {"verbose", "quiet", "debug"}

detachFlag(o) ==
    IF o.type \in HdiutilDetachTypes THEN hdiutil_detachFlag(o)
    ELSE detachForce_detachFlag(o.val)

(***************************************************************************)
(* makehybridFlag().                                                       *)
(***************************************************************************)
hdiutil_makehybridFlag(o, ord) ==
    CASE o.type = "EncryptionType" ->
            stringFlag("encryption", EncryptionType_String(o.val))
      [] o.type = "puppetstrings" -> boolFlag("puppetstrings", o.val)
      [] o.type = "Srcimagekey" -> Srcimagekey_commonFlag(o.val, ord)
      [] o.type = "stdinpass" -> boolFlag("stdinpass", o.val)
      [] o.type = "Shadow" -> stringFlag("shadow", o.val)
      [] o.type = "verbose" -> boolFlag("verbose", o.val)
      [] o.type = "quiet" -> boolFlag("quiet", o.val)
      [] o.type = "debug" -> boolFlag("debug", o.val)

makehybrid_makehybridFlag(o) ==
    CASE o.type = "makehybridHFS" ->
            boolFlag("hfs", o.val)
      [] o.type = "makehybridISO" ->
            boolFlag("iso", o.val)
      [] o.type = "makehybridJoliet" ->
            boolFlag("joliet", o.val)
      [] o.type = "makehybridUDF" ->
            boolFlag("udf", o.val)
      [] o.type = "makehybridHFSBlessedDirectory" ->
            boolFlag("hfs-blessed-directory", o.val)
      [] o.type = "makehybridHFSOpenfolder" ->
            boolFlag("hfs-openfolder", o.val)
      [] o.type = "makehybridHFSStartupfileSize" ->
            boolFlag("hfs-startupfile-size", o.val)
      [] o.type = "makehybridAbstractFile" ->
            boolFlag("abstract-file", o.val)
      [] o.type = "makehybridBibliographyFile" ->
            boolFlag("bibliography-file", o.val)
      [] o.type = "makehybridCopyrightFile" ->
            boolFlag("copyright-file", o.val)
      [] o.type = "makehybridApplication" ->
            boolFlag("application", o.val)
      [] o.type = "makehybridPreparer" ->
            boolFlag("preparer", o.val)
      [] o.type = "makehybridPublisher" ->
            boolFlag("publisher", o.val)
      [] o.type = "makehybridSystemID" ->
            boolFlag("system-id", o.val)
      [] o.type = "makehybridKeepMacSpecific" ->
            boolFlag("keep-mac-specific", o.val)
      [] o.type = "makehybridEltoritoBoot" ->
            boolFlag("eltorito-boot", o.val)
      [] o.type = "makehybridHardDiskBoot" ->
            boolFlag("hard-disk-boot", o.val)
      [] o.type = "makehybridNoEmulBoot" ->
            boolFlag("no-emul-boot", o.val)
      [] o.type = "makehybridNoBoot" ->
            boolFlag("no-boot", o.val)
      [] o.type = "makehybridBootLoadSeg" ->
            boolFlag("boot-load-seg", o.val)
      [] o.type = "makehybridBootLoadSize" ->
            boolFlag("boot-load-seg", o.val)
      [] o.type = "makehybridEltoritoPlatform" ->
            boolFlag("eltorito-platform", o.val)
      [] o.type = "makehybridEltoritoSpecification" ->
            boolFlag("eltorito-specification", o.val)
      [] o.type = "makehybridUDFVersion" ->
            boolFlag("udf-version", o.val)
      [] o.type = "makehybridDefaultVolumeName" ->
            boolFlag("default-volume-name", o.val)
      [] o.type = "makehybridHFSVolumeName" ->
            boolFlag("hfs-volume-name", o.val)
      [] o.type = "makehybridISOVolumeName" ->
            boolFlag("iso-volume-name", o.val)
      [] o.type = "makehybridJolietVolumeName" ->
            boolFlag("joliet-volume-name", o.val)
      [] o.type = "makehybridUDFVolumeName" ->
            boolFlag("udf-volume-name", o.val)
      [] o.type = "makehybridHideAll" ->
            boolFlag("hide-all", o.val)
      [] o.type = "makehybridHideHFS" ->
            boolFlag("hide-hfs", o.val)
      [] o.type = "makehybridHideISO" ->
            boolFlag("hide-iso", o.val)
      [] o.type = "makehybridHideJoliet" ->
            boolFlag("hide-joliet", o.val)
      [] o.type = "makehybridHideUDF" ->
            boolFlag("hide-udf", o.val)
      [] o.type = "makehybridOnlyUDF" ->
            boolFlag("only-udf", o.val)
      [] o.type = "makehybridOnlyISO" ->
            boolFlag("only-iso", o.val)
      [] o.type = "makehybridOnlyJoliet" ->
            boolFlag("only-joliet", o.val)
      [] o.type = "makehybridPrintSize" ->
            boolFlag("print-size", o.val)
      [] o.type = "makehybridPlistin" ->
            boolFlag("plistin", o.val)

MakehybridOnlyTypes ==
    {"makehybridHFS", "makehybridISO", "makehybridJoliet",
    "makehybridUDF", "makehybridHFSBlessedDirectory",
    "makehybridHFSOpenfolder", "makehybridHFSStartupfileSize",
    "makehybridAbstractFile", "makehybridBibliographyFile",
    "makehybridCopyrightFile", "makehybridApplication",
    "makehybridPreparer", "makehybridPublisher", "makehybridSystemID",
    "makehybridKeepMacSpecific", "makehybridEltoritoBoot",
    "makehybridHardDiskBoot", "makehybridNoEmulBoot", "makehybridNoBoot",
    "makehybridBootLoadSeg", "makehybridBootLoadSize",
    "makehybridEltoritoPlatform", "makehybridEltoritoSpecification",
    "makehybridUDFVersion", "makehybridDefaultVolumeName",
    "makehybridHFSVolumeName", "makehybridISOVolumeName",
    "makehybridJolietVolumeName", "makehybridUDFVolumeName",
    "makehybridHideAll", "makehybridHideHFS", "makehybridHideISO",
    "makehybridHideJoliet", "makehybridHideUDF", "makehybridOnlyUDF",
    "makehybridOnlyISO", "makehybridOnlyJoliet", "makehybridPrintSize",
    "makehybridPlistin"}

HdiutilMakehybridTypes ==
    {"EncryptionType", "puppetstrings", "Srcimagekey", "stdinpass", "Shadow",
     "verbose", "quiet", "debug"}

makehybridFlag(o, ord) ==
    IF o.type \in HdiutilMakehybridTypes THEN hdiutil_makehybridFlag(o, ord)
    ELSE makehybrid_makehybridFlag(o)

(***************************************************************************)
(* Device-node helpers.                                                    *)
(***************************************************************************)
IsDigit(ch) == ch \in DigitChars

\* The end (exclusive, 0-based) of the run of digits of s that starts at i.
RECURSIVE digitsEnd(_, _)
digitsEnd(s, i) ==
    IF i < Len(s) /\ IsDigit(Slice(s, i, i + 1)) THEN digitsEnd(s, i + 1)
    ELSE i

\* attachRe = regexp.MustCompile(`/dev/disk[\d]+`); attachRe.Find(b): the
\* leftmost match, its [\d]+ taken greedily; nil (the empty string once
\* converted) when nothing matches.
RECURSIVE attachReFindFrom(_, _)
attachReFindFrom(b, i) ==
    IF i >= Len(b) THEN ""
    ELSE IF HasPrefix(Slice(b, i, Len(b)), "/dev/disk")
            /\ digitsEnd(b, i + 9) > i + 9
         THEN Slice(b, i, digitsEnd(b, i + 9))
         ELSE attachReFindFrom(b, i + 1)

\* the pattern with a single digit in place of [\d]+
attachRe_FindOneDigit(b) ==
    LET i == Index(b, "/dev/disk")
    IN  IF i >= 0 /\ i + 9 < Len(b) /\ IsDigit(Slice(b, i + 9, i + 10))
        THEN Slice(b, i, i + 10)
        ELSE ""

attachRe_Find(b) == attachReFindFrom(b, 0)

\* strings.Replace(s, old, new, -1)
RECURSIVE ReplaceAll(_, _, _)
ReplaceAll(s, old, new) ==
    LET i == Index(s, old)
    IN  IF i < 0 THEN s
        ELSE (Slice(s, 0, i) \o new)
                 \o ReplaceAll(Slice(s, i + Len(old), Len(s)), old, new)

\* RawDeviceNode replacing every "disk"
RawDeviceNodeEvery(deviceNode) == ReplaceAll(deviceNode, "disk", "rdisk")

RawDeviceNode(deviceNode) == Replace1(deviceNode, "disk", "rdisk")

DigitVal(ch) == CHOOSE d \in 0..9 : Digits[d + 1] = ch

RECURSIVE AllDigits(_)
AllDigits(s) == s = "" \/ (IsDigit(Head(s)) /\ AllDigits(Tail(s)))

RECURSIVE StripZeros(_)
StripZeros(s) == IF s # "" /\ Head(s) = "0" THEN StripZeros(Tail(s)) ELSE s

\* a > b for two digit strings of one length
RECURSIVE DigitsGreater(_, _)
DigitsGreater(a, b) ==
    IF a = "" THEN FALSE
    ELSE IF Head(a) # Head(b) THEN DigitVal(Head(a)) > DigitVal(Head(b))
    ELSE DigitsGreater(Tail(a), Tail(b))

\* whether the magnitude written by the digit string s is above limit
MagnitudeAbove(s, limit) ==
    LET t == StripZeros(s)
    IN  Len(t) > Len(limit) \/ (Len(t) = Len(limit) /\ DigitsGreater(t, limit))

RECURSIVE ParseDigits(_, _)
ParseDigits(s, n) ==
    IF s = "" THEN n ELSE ParseDigits(Tail(s), n * 10 + DigitVal(Head(s)))

\* an atoi that reads the leading digits and ignores what follows them
AtoiLeadingDigits(s) ==
    LET e == digitsEnd(s, 0)
    IN  IF e = 0 \/ e > 9 THEN [n |-> 0, err |-> TRUE]
        ELSE [n |-> ParseDigits(Slice(s, 0, e), 0), err |-> FALSE]

\* strconv.Atoi on a 64-bit int: an optional sign, then one or more decimal
\* digits, the value within [-2^63, 2^63 - 1]; anything else is an error.
Atoi(s) ==
    LET signed == s # "" /\ Head(s) \in {"-", "+"}
        neg == s # "" /\ Head(s) = "-"
        body == IF signed THEN Tail(s) ELSE s
    IN  IF body = "" \/ ~AllDigits(body) THEN [n |-> 0, err |-> TRUE]
        ELSE IF MagnitudeAbove(body, IF neg THEN "9223372036854775808"
                                            ELSE "9223372036854775807")
             THEN [n |-> 0, err |-> TRUE]
        ELSE [n |-> IF neg THEN 0 - ParseDigits(StripZeros(body), 0)
                    ELSE ParseDigits(StripZeros(body), 0),
              err |-> FALSE]

DeviceNumber(deviceNode) ==
    LET r == Atoi(TrimPrefix(deviceNode, "/dev/disk"))
    IN  IF r.err THEN 0 ELSE r.n

(***************************************************************************)
(* Inputs of the model.                                                    *)
(***************************************************************************)
Keys == {"k1", "k2", "k3"}

Values == {"v1", "v2"}

\* map[string]string values of at most MaxKeys entries
Maps ==
    UNION {[K -> Values] : K \in {K \in SUBSET Keys : Cardinality(K) <= MaxKeys}}

MapTypes == {"Srcimagekey", "Tgtimagekey", "Imagekey"}

\* every order in which a range loop may visit the keys of m
KeyOrders(m) ==
    {ord \in [1..Cardinality(DOMAIN m) -> DOMAIN m] :
        \A i, j \in 1..Cardinality(DOMAIN m) : i # j => ord[i] # ord[j]}

\* the iteration orders open to one encoding of o
Orders(o) == IF o.type \in MapTypes THEN KeyOrders(o.val) ELSE {<<>>}

TwoKeyMap == [k \in {"k1", "k2"} |-> IF k = "k1" THEN "v1" ELSE "v2"]

AttachFlagPool ==
    {Opt("attachVerify", FALSE), Opt("attachAutoFsck", FALSE),
     Opt("AttachMountPoint", "./test"), Opt("quiet", TRUE)}

SizePool == {Opt("CreateMegabytes", 20), Opt("CreateSize", "20m")}

CreateFlagPool ==
    {Opt("createFS", CreateHFSPlus), Opt("createFS", CreateAPFS),
     Opt("createType", CreateSPARSEBUNDLE), Opt("createOV", FALSE),
     Opt("Tgtimagekey", TwoKeyMap)}

ConvertFlagPool ==
    {Opt("ConvertTasks", 2), Opt("convertPmap", TRUE),
     Opt("EncryptionType", AES256), Opt("Srcimagekey", TwoKeyMap)}

\* what format.formatFlag() may return: no type of the package implements
\* formatFlag, so the tokens are the caller's
FormatPool == {<<>>, <<"-format", "UDZO">>}

DetachFlagPool ==
    {Opt("detachForce", TRUE), Opt("verbose", TRUE), Opt("quiet", FALSE)}

VerifyFlagPool ==
    {Opt("verifyCache", TRUE), Opt("verifyCache", FALSE), Opt("plist", TRUE),
     Opt("EncryptionType", AES128)}

MakehybridFlagPool ==
    {Opt("makehybridHFS", TRUE), Opt("makehybridBootLoadSeg", TRUE),
     Opt("makehybridBootLoadSize", TRUE), Opt("Srcimagekey", TwoKeyMap)}

SeqsUpTo(S, n) == UNION {[1..k -> S] : k \in 0..n}

DeviceNodes == {"/dev/disk5", ""}

\* text the tool may print: concatenations of at most MaxChunks chunks
OutChunks == {"/dev/disk", "4", "5", "s1 \n"}

\* what a tool other than attach prints when it succeeds
PlainOutputs == {"", "created: test.dmg\n"}

RECURSIVE Concat(_)
Concat(ss) == IF ss = <<>> THEN "" ELSE Head(ss) \o Concat(Tail(ss))

SampleAttachOutput == "/dev/disk4\n/dev/disk4s1  Apple_HFS  /Volumes/test\n"

Outputs ==
    {Concat(c) : c \in SeqsUpTo(OutChunks, MaxChunks)} \cup {SampleAttachOutput}

\* what a failing tool prints
ErrorOutputs ==
    {"", "hdiutil: attach failed - No such file or directory\n",
     "/dev/disk4 busy\n"}

(***************************************************************************)
(* State.                                                                  *)
(***************************************************************************)
VARIABLES
    pc,      \* where the caller is: "idle", "wait" (blocked in cmd.Run or
             \* cmd.CombinedOutput), "returned"
    call,    \* the operation in progress and its arguments
    Args,    \* cmd.Args of the command the operation built
    proc,    \* the external process: state, exit status, what it printed
    ret,     \* what the operation returned: device node and error
    effects, \* what the operation in progress has done outside the program,
             \* in order: "exec" for a process it started
    eopt,    \* option encoding: the option value
    eiface,  \*   the interface method applied to it
    etok1,   \*   the tokens of its first encoding
    etok2,   \*   the tokens of its second encoding
    epc,     \*   "off", "new", "once", "twice"
    dnode,   \* device-node helpers: the argument string
    draw,    \*   RawDeviceNode(dnode)
    dnum,    \*   DeviceNumber(dnode)
    dpc,     \*   "off", "new", "raw", "num"
    conc,    \* concurrent callers: for each, its position, call, cmd,
             \*   process and results
    prog     \* an example program: its position, local variables, the
             \*   image on disk, the calls it made, its exit status

cmdVars == <<pc, call, Args, proc, ret, effects>>

encVars == <<eopt, eiface, etok1, etok2, epc>>

nodeVars == <<dnode, draw, dnum, dpc>>

concVars == <<conc>>

mainVars == <<prog>>

vars == <<cmdVars, encVars, nodeVars, concVars, mainVars>>

Nil == "<nil>"

hdiutilPath == "/usr/bin/hdiutil"

NoOpt == Opt("none", FALSE)

NoCall ==
    [fn |-> "none", image |-> "", sizeSpec |-> NoOpt, format |-> <<>>,
     outfile |-> "", source |-> "", deviceNode |-> "", flags |-> <<>>]

NoProc == [state |-> "none", status |-> 0, out |-> ""]

NoRet == [node |-> "", err |-> Nil]

CmdOff ==
    /\ pc = "off" /\ call = NoCall /\ Args = <<>> /\ proc = NoProc
    /\ ret = NoRet /\ effects = <<>>

EncOff ==
    /\ eopt = NoOpt /\ eiface = "none" /\ etok1 = <<>> /\ etok2 = <<>>
    /\ epc = "off"

NodeOff == dnode = "" /\ draw = "" /\ dnum = 0 /\ dpc = "off"

\* the goroutines that call the package at the same time
Callers == 1..MaxCallers

\* a caller before its call: no cmd, no process, no results
NoCaller ==
    [pc |-> "off", call |-> NoCall, Args |-> <<>>, argv |-> <<>>,
     proc |-> NoProc, ret |-> NoRet, overlapped |-> FALSE]

ConcOff == conc = [c \in Callers |-> NoCaller]

\* an example program before main
NoProg ==
    [name |-> "none", pc |-> "off", exists |-> FALSE, created |-> FALSE,
     deferred |-> FALSE, attached |-> FALSE, out |-> "", deviceNode |-> "",
     err |-> Nil,
     logged |-> <<>>, detached |-> <<>>, status |-> 0]

MainOff == prog = NoProg

(***************************************************************************)
(* The verb operations up to the point where they block on the process.    *)
(***************************************************************************)
\* one iteration order for each option of flags
OrderSeqs(flags) ==
    {ords \in [1..Len(flags) -> UNION {Orders(flags[i]) : i \in 1..Len(flags)}] :
        \A i \in 1..Len(flags) : ords[i] \in Orders(flags[i])}

flagTokens(verb, o, ord) ==
    CASE verb = "attach" -> attachFlag(o, ord)
      [] verb = "create" -> createFlag(o, ord)
      [] verb = "convert" -> convertFlag(o, ord)
      [] verb = "verify" -> verifyFlag(o)
      [] verb = "detach" -> detachFlag(o)
      [] verb = "makehybrid" -> makehybridFlag(o, ord)

\* the range loop taken from the last option to the first
RECURSIVE appendFlagsBackwards(_, _, _, _)
appendFlagsBackwards(args, verb, flags, ords) ==
    IF flags = <<>> THEN args
    ELSE appendFlagsBackwards(
             args \o flagTokens(verb, flags[Len(flags)], ords[Len(flags)]),
             verb, SubSeq(flags, 1, Len(flags) - 1),
             SubSeq(ords, 1, Len(flags) - 1))

\* for _, flag := range flags { cmd.Args = append(cmd.Args, flag.xFlag()...) }
RECURSIVE appendFlags(_, _, _, _)
appendFlags(args, verb, flags, ords) ==
    IF flags = <<>> THEN args
    ELSE appendFlags(args \o flagTokens(verb, Head(flags), Head(ords)),
                     verb, Tail(flags), Tail(ords))

\* Attach with the image appended after the options
Attach_ArgsImageLast(image, flags, ords) ==
    appendFlags(<<hdiutilPath, "attach">>, "attach", flags, ords) \o <<image>>

Attach_Args(image, flags, ords) ==
    appendFlags(<<hdiutilPath, "attach", image>>, "attach", flags, ords)

\* Create with the image appended after the options
Create_ArgsImageLast(image, sizeSpec, flags, ords) ==
    appendFlags(<<hdiutilPath, "create">> \o sizeFlag(sizeSpec), "create",
                flags, ords) \o <<image>>

Create_Args(image, sizeSpec, flags, ords) ==
    appendFlags((<<hdiutilPath, "create">> \o sizeFlag(sizeSpec)) \o <<image>>,
                "create", flags, ords)

Convert_Args(image, format, outfile, flags, ords) ==
    appendFlags((<<hdiutilPath, "convert", image>> \o format) \o <<outfile>>,
                "convert", flags, ords)

Detach_Args(deviceNode, flags, ords) ==
    appendFlags(<<hdiutilPath, "detach", deviceNode>>, "detach", flags, ords)

Verify_Args(img, flags, ords) ==
    appendFlags(<<hdiutilPath, "verify", img>>, "verify", flags, ords)

Makehybrid_Args(image, source, flags, ords) ==
    appendFlags(<<hdiutilPath, "makehybrid", image, source>>, "makehybrid",
                flags, ords)

\* the caller is about to make a call.  An operation keeps nothing from one
\* call to the next, so every call is taken from the fresh caller.
Free == pc = "idle"

\* cmd.Run / cmd.CombinedOutput starts the process and blocks
Start(c, args) ==
    /\ call' = c
    /\ Args' = args
    /\ proc' = [state |-> "started", status |-> 0, out |-> ""]
    /\ effects' = Append(effects, "exec")
    /\ ret' = NoRet
    /\ pc' = "wait"
    /\ UNCHANGED <<encVars, nodeVars, concVars, mainVars>>

Attach(image, flags) ==
    /\ Free
    /\ \E ords \in OrderSeqs(flags) :
          Start([NoCall EXCEPT !.fn = "Attach", !.image = image,
                               !.flags = flags],
                Attach_Args(image, flags, ords))

Create(image, sizeSpec, flags) ==
    /\ Free
    /\ \E ords \in OrderSeqs(flags) :
          Start([NoCall EXCEPT !.fn = "Create", !.image = image,
                               !.sizeSpec = sizeSpec, !.flags = flags],
                Create_Args(image, sizeSpec, flags, ords))

Convert(image, format, outfile, flags) ==
    /\ Free
    /\ \E ords \in OrderSeqs(flags) :
          Start([NoCall EXCEPT !.fn = "Convert", !.image = image,
                               !.format = format, !.outfile = outfile,
                               !.flags = flags],
                Convert_Args(image, format, outfile, flags, ords))

Detach(deviceNode, flags) ==
    /\ Free
    /\ \E ords \in OrderSeqs(flags) :
          Start([NoCall EXCEPT !.fn = "Detach", !.deviceNode = deviceNode,
                               !.flags = flags],
                Detach_Args(deviceNode, flags, ords))

Verify(img, flags) ==
    /\ Free
    /\ \E ords \in OrderSeqs(flags) :
          Start([NoCall EXCEPT !.fn = "Verify", !.image = img,
                               !.flags = flags],
                Verify_Args(img, flags, ords))

Makehybrid(image, source, flags) ==
    /\ Free
    /\ \E ords \in OrderSeqs(flags) :
          Start([NoCall EXCEPT !.fn = "Makehybrid", !.image = image,
                               !.source = source, !.flags = flags],
                Makehybrid_Args(image, source, flags, ords))

(***************************************************************************)
(* The external process.                                                   *)
(***************************************************************************)
\* the executable could not be started
ProcStartFails ==
    /\ pc = "wait" /\ proc.state = "started"
    /\ proc' = [proc EXCEPT !.state = "nostart"]
    /\ UNCHANGED <<pc, call, Args, ret, effects, encVars, nodeVars, concVars, mainVars>>

\* the process ends, having printed out
ProcExits(status, out) ==
    /\ pc = "wait" /\ proc.state = "started"
    /\ proc' = [state |-> "exited", status |-> status, out |-> out]
    /\ UNCHANGED <<pc, call, Args, ret, effects, encVars, nodeVars, concVars, mainVars>>

\* the error of cmd.Run / cmd.CombinedOutput: nil for exit status 0, an
\* *exec.ExitError naming the status otherwise, the start error when the
\* process never ran
runError(p) ==
    IF p.state = "nostart"
    THEN "fork/exec " \o hdiutilPath \o ": no such file or directory"
    ELSE IF p.status = 0 THEN Nil
    ELSE "exit status " \o Itoa(p.status)

Terminated == pc = "wait" /\ proc.state \in {"nostart", "exited"}

(***************************************************************************)
(* The verb operations from the point where the process has ended.         *)
(***************************************************************************)
Return(r) ==
    /\ ret' = r
    /\ pc' = "returned"
    /\ UNCHANGED <<call, Args, proc, effects, encVars, nodeVars, concVars, mainVars>>

\* Attach with a deadline: it gives the process up while it still runs
AttachReturnTimeout ==
    /\ pc = "wait" /\ call.fn = "Attach"
    /\ LET err == runError(proc)
       IN  IF proc.state = "started"
           THEN Return([node |-> "", err |-> "timeout"])
           ELSE IF err # Nil
           THEN Return([node |-> "", err |-> (err \o ": ") \o proc.out])
           ELSE Return([node |-> attachRe_Find(proc.out), err |-> Nil])

\* Attach that looks for the device node before it tests err
AttachReturnKeepNode ==
    /\ Terminated /\ call.fn = "Attach"
    /\ LET err == runError(proc)
           out == proc.out
       IN  IF err # Nil
           THEN Return([node |-> attachRe_Find(out),
                        err |-> (err \o ": ") \o out])
           ELSE Return([node |-> attachRe_Find(out), err |-> Nil])

\* out, err := cmd.CombinedOutput(); on an error "": fmt.Errorf("%v: %s")
AttachReturn ==
    /\ Terminated /\ call.fn = "Attach"
    /\ LET err == runError(proc)
           out == proc.out
       IN  IF err # Nil
           THEN Return([node |-> "", err |-> (err \o ": ") \o out])
           ELSE Return([node |-> attachRe_Find(out), err |-> Nil])

\* Create that removes the image when the command failed
CreateReturnCleanup ==
    /\ Terminated /\ call.fn = "Create"
    /\ ret' = [node |-> "", err |-> runError(proc)]
    /\ effects' = IF runError(proc) # Nil THEN Append(effects, "remove")
                  ELSE effects
    /\ pc' = "returned"
    /\ UNCHANGED <<call, Args, proc, encVars, nodeVars, concVars, mainVars>>

\* err := cmd.Run(); if err != nil { return err }; return nil
CreateReturn ==
    /\ Terminated /\ call.fn = "Create"
    /\ Return([node |-> "", err |-> runError(proc)])

ConvertReturn ==
    /\ Terminated /\ call.fn = "Convert"
    /\ Return([node |-> "", err |-> runError(proc)])

DetachReturn ==
    /\ Terminated /\ call.fn = "Detach"
    /\ Return([node |-> "", err |-> runError(proc)])

VerifyReturn ==
    /\ Terminated /\ call.fn = "Verify"
    /\ Return([node |-> "", err |-> runError(proc)])

MakehybridReturn ==
    /\ Terminated /\ call.fn = "Makehybrid"
    /\ Return([node |-> "", err |-> runError(proc)])

(***************************************************************************)
(* The specification of the verb operations.                               *)
(***************************************************************************)
Init == pc = "idle" /\ call = NoCall /\ Args = <<>> /\ proc = NoProc
        /\ ret = NoRet /\ effects = <<>> /\ EncOff /\ NodeOff /\ ConcOff /\ MainOff

\* what the callers of the model pass
CallAttach ==
    Free /\ \E image \in {"test.sparsebundle", ""},
               flags \in SeqsUpTo(AttachFlagPool, MaxFlags) :
               Attach(image, flags)

CallCreate ==
    Free /\ \E image \in {"test", ""}, sizeSpec \in SizePool,
               flags \in SeqsUpTo(CreateFlagPool, MaxFlags) :
               Create(image, sizeSpec, flags)

CallConvert ==
    Free /\ \E format \in FormatPool,
               flags \in SeqsUpTo(ConvertFlagPool, MaxFlags) :
               Convert("test.dmg", format, "out.dmg", flags)

CallDetach ==
    Free /\ \E deviceNode \in DeviceNodes,
               flags \in SeqsUpTo(DetachFlagPool, MaxFlags) :
               Detach(deviceNode, flags)

CallVerify ==
    Free /\ \E flags \in SeqsUpTo(VerifyFlagPool, MaxFlags) :
               Verify("test.dmg", flags)

CallMakehybrid ==
    Free /\ \E flags \in SeqsUpTo(MakehybridFlagPool, MaxFlags) :
               Makehybrid("out.iso", "srcdir", flags)

ProcSucceeds ==
    pc = "wait" /\ \E out \in IF call.fn = "Attach" THEN Outputs
                              ELSE PlainOutputs : ProcExits(0, out)

ProcFails == pc = "wait" /\ \E out \in ErrorOutputs : ProcExits(1, out)

Next ==
    \/ CallAttach
    \/ CallCreate
    \/ CallConvert
    \/ CallDetach
    \/ CallVerify
    \/ CallMakehybrid
    \/ ProcStartFails
    \/ ProcSucceeds
    \/ ProcFails
    \/ AttachReturn
    \/ CreateReturn
    \/ ConvertReturn
    \/ DetachReturn
    \/ VerifyReturn
    \/ MakehybridReturn

Spec == Init /\ [][Next]_vars

(***************************************************************************)
(* Option encoding on its own: one option value, encoded twice through one  *)
(* of the interfaces its type implements.                                   *)
(***************************************************************************)
\* the option types by the Go type they are declared with
BoolTypes ==
    {"plist", "puppetstrings", "stdinpass", "verbose", "quiet", "debug",
     "verifyCache", "detachForce", "attachKernel", "attachNotRemovable",
     "attachNoMount", "attachNoBrowse", "attachVerify",
     "attachIgnoreBadChecksums", "attachIdme", "atachIdmeReveal",
     "attachIdmeTrash", "attachAutoOpen", "attachAutoOpenRO",
     "attachAutoOpenRW", "attachAutoFsck", "createAutostretch", "createOV",
     "createAttach", "createCrossdev", "createScrub", "createAnyowners",
     "createSkipunreadable", "createAtomic", "convertPmap"}
    \cup MakehybridOnlyTypes

StringTypes ==
    {"Recover", "Shadow", "Certificate", "attachMount", "AttachMountRoot",
     "AttachMountRandom", "AttachMountPoint", "attachOwners", "CreateSize",
     "CreateSrcfolder", "CreateSrcdir", "CreateSrcdevice", "CreateVolname",
     "CreateMode", "CreateLayout", "CreateLibrary", "CreatePartitionType",
     "CreateFormat", "CreateCopyuid", "ConvertSegmentSize"}

IntTypes ==
    {"CreateSectors", "CreateMegabytes", "CreateAlign", "CreateUID",
     "CreateGID", "CreateStretch", "CreateSegmentSize", "ConvertAlign",
     "ConvertTasks"}

EnumTypes == {"EncryptionType", "createType", "createFS"}

StrPayloads == {"./test", "20m", ""}

IntPayloads == {-15, 0, 7, 20, 123}

\* the declared members of an enumeration
Members(t) ==
    CASE t = "EncryptionType" -> {AES128, AES256}
      [] t = "createType" -> {CreateUDIF, CreateSPARSE, CreateSPARSEBUNDLE}
      [] t = "createFS" ->
            {CreateHFSPlus, CreateHFSPlusJ, CreateJHFSPlus, CreateHFSX,
             CreateJHFSPlusX, CreateAPFS, CreateFAT32, CreateExFAT, CreateUDF}

Payloads(t) ==
    CASE t \in BoolTypes -> BOOLEAN
      [] t \in StringTypes -> StrPayloads
      [] t \in IntTypes -> IntPayloads
      [] t \in EnumTypes -> Members(t)
      [] t \in MapTypes -> Maps
      [] t = "CreateFSArgs" -> SeqsUpTo({"-a", "b"}, 2)
      [] t = "AttachDrivekey" -> {<<"k1", "v1">>}
      [] t = "AttachSection" -> {<<0, 8>>, <<3, 5>>}

\* the types that implement each interface
Implementors(iface) ==
    CASE iface = "attachFlag" -> HdiutilAttachTypes \cup AttachOnlyTypes
      [] iface = "sizeFlag" -> SizeTypes
      [] iface = "createFlag" -> HdiutilCreateTypes \cup CreateOnlyTypes
      [] iface = "convertFlag" -> HdiutilConvertTypes \cup ConvertOnlyTypes
      [] iface = "verifyFlag" -> HdiutilVerifyTypes \cup {"verifyCache"}
      [] iface = "detachFlag" -> HdiutilDetachTypes \cup {"detachForce"}
      [] iface = "makehybridFlag" ->
            HdiutilMakehybridTypes \cup MakehybridOnlyTypes
      [] iface = "attachFlagPrev" -> AttachOnlyTypes
      [] iface = "formatFlag" -> {}

Interfaces ==
    {"attachFlag", "sizeFlag", "createFlag", "convertFlag", "verifyFlag",
     "detachFlag", "makehybridFlag", "attachFlagPrev"}

\* the declared constants of convertFormot
ConvertFormats ==
    {ConvertUDRW, ConvertUDRO, ConvertUDCO, ConvertUDZO,
     ConvertULFO, ConvertUDBZ, ConvertUDTO, ConvertUDSP,
     ConvertUDSB, ConvertUFBI, ConvertUDRo, ConvertUDCo,
     ConvertRdWr, ConvertRdxx, ConvertROCo, ConvertRken,
     ConvertDC42}

\* the values of the package that Convert accepts as its format parameter:
\* those of the types with a formatFlag method
FormatArguments ==
    UNION {{Opt(t, v) : v \in Payloads(t)} : t \in Implementors("formatFlag")}

\* attachRWType: 1 << iota
readonly == 1
readwrite == 2

AttachReadonly == readonly
AttachReadWrite == readwrite

\* func (a attachRWType) attachFlag() string: one string, not a []string,
\* so the type is not among the implementors of the attachFlag interface
attachRWType_attachFlag(a) ==
    CASE a = readonly -> "-readonly"
      [] a = readwrite -> "-readwrite"
      [] OTHER -> ""

\* the exported constants of the option types: every bool type but
\* createSkipunreadable has one that is true, the types below one that is
\* false, and the enumerations have their members
ExportedConstants ==
    {Opt(t, TRUE) : t \in BoolTypes \ {"createSkipunreadable"}}
    \cup {Opt(t, FALSE) : t \in
            {"createAutostretch", "createCrossdev", "createScrub",
             "createAnyowners", "createSkipunreadable", "createAtomic",
             "attachKernel", "attachVerify", "attachIgnoreBadChecksums",
             "attachIdme", "atachIdmeReveal", "attachIdmeTrash",
             "attachAutoOpen", "attachAutoOpenRO", "attachAutoOpenRW",
             "attachAutoFsck", "verifyCache"}}
    \cup UNION {{Opt(t, v) : v \in Members(t)} : t \in EnumTypes}

\* the values of the package that Attach accepts among its flags
AttachArguments ==
    UNION {{Opt(t, v) : v \in Payloads(t)} : t \in Implementors("attachFlag")}

\* o's method for the interface iface
encode(o, iface, ord) ==
    CASE iface = "attachFlag" -> attachFlag(o, ord)
      [] iface = "sizeFlag" -> sizeFlag(o)
      [] iface = "createFlag" -> createFlag(o, ord)
      [] iface = "convertFlag" -> convertFlag(o, ord)
      [] iface = "verifyFlag" -> verifyFlag(o)
      [] iface = "detachFlag" -> detachFlag(o)
      [] iface = "makehybridFlag" -> makehybridFlag(o, ord)
      [] iface = "attachFlagPrev" -> attachFlagPrev(o)

InitEnc ==
    /\ CmdOff /\ NodeOff /\ ConcOff /\ MainOff
    /\ eiface \in Interfaces
    /\ \E t \in Implementors(eiface) : eopt \in {Opt(t, v) : v \in Payloads(t)}
    /\ etok1 = <<>> /\ etok2 = <<>>
    /\ epc = "new"

Encode1 ==
    /\ epc = "new"
    /\ \E ord \in Orders(eopt) : etok1' = encode(eopt, eiface, ord)
    /\ epc' = "once"
    /\ UNCHANGED <<eopt, eiface, etok2, cmdVars, nodeVars, concVars, mainVars>>

Encode2 ==
    /\ epc = "once"
    /\ \E ord \in Orders(eopt) : etok2' = encode(eopt, eiface, ord)
    /\ epc' = "twice"
    /\ UNCHANGED <<eopt, eiface, etok1, cmdVars, nodeVars, concVars, mainVars>>

NextEnc == Encode1 \/ Encode2

SpecEnc == InitEnc /\ [][NextEnc]_vars

(***************************************************************************)
(* The device-node helpers on their own.                                    *)
(***************************************************************************)
NodeChunks ==
    {"/dev/disk", "disk", "r", "5", "12", "0", "-", "+", "s1",
     "99999999999999999999"}

NodeSamples == {"not-a-device", "/dev/disk4s1", "/dev/disk12"}

NodeInputs ==
    {Concat(c) : c \in SeqsUpTo(NodeChunks, MaxChunks)} \cup NodeSamples

InitNode ==
    /\ CmdOff /\ EncOff /\ ConcOff /\ MainOff
    /\ dnode \in NodeInputs
    /\ draw = "" /\ dnum = 0
    /\ dpc = "new"

CallRawDeviceNode ==
    /\ dpc = "new"
    /\ draw' = RawDeviceNode(dnode)
    /\ dpc' = "raw"
    /\ UNCHANGED <<dnode, dnum, cmdVars, encVars, concVars, mainVars>>

CallDeviceNumber ==
    /\ dpc = "raw"
    /\ dnum' = DeviceNumber(dnode)
    /\ dpc' = "num"
    /\ UNCHANGED <<dnode, draw, cmdVars, encVars, concVars, mainVars>>

NextNode == CallRawDeviceNode \/ CallDeviceNumber

SpecNode == InitNode /\ [][NextNode]_vars

(***************************************************************************)
(* Verb operations called from several goroutines at once.  Every caller   *)
(* has its own cmd (a local variable of the function), its own process and  *)
(* its own results; the package-level attachRe and hdiutilPath are only     *)
(* read.  A call is split at the points where the scheduler can switch:     *)
(* building cmd, starting the process, the process ending, returning.       *)
(***************************************************************************)
\* the calls the concurrent callers make
ConcCalls ==
    {[NoCall EXCEPT !.fn = "Attach", !.image = "test.sparsebundle",
                    !.flags = <<Opt("AttachMountPoint", "./test")>>],
     [NoCall EXCEPT !.fn = "Attach", !.image = "other.dmg"],
     [NoCall EXCEPT !.fn = "Create", !.image = "test",
                    !.sizeSpec = Opt("CreateMegabytes", 20),
                    !.flags = <<Opt("createFS", CreateAPFS)>>]}

\* another caller is inside a call
Overlaps(c) == \E k \in Callers \ {c} : conc[k].pc \in {"built", "wait"}

\* cmd kept in a package-level variable: building it replaces the cmd of
\* every caller that has not started its process yet
ConcCommandShared(c, cl, args) ==
    /\ conc[c].pc = "idle"
    /\ conc' = [k \in Callers |->
                  IF k = c
                  THEN [conc[c] EXCEPT !.pc = "built", !.call = cl,
                                       !.Args = args,
                                       !.overlapped = Overlaps(c)]
                  ELSE IF conc[k].pc = "built"
                  THEN [conc[k] EXCEPT !.Args = args]
                  ELSE conc[k]]
    /\ UNCHANGED <<cmdVars, encVars, nodeVars, mainVars>>

\* cmd := exec.Command(...); cmd.Args = append(cmd.Args, ...)
ConcCommand(c, cl, args) ==
    /\ conc[c].pc = "idle"
    /\ conc' = [conc EXCEPT ![c] = [@ EXCEPT !.pc = "built", !.call = cl,
                                             !.Args = args,
                                             !.overlapped = Overlaps(c)]]
    /\ UNCHANGED <<cmdVars, encVars, nodeVars, mainVars>>

ConcAttach(c) ==
    \E cl \in {k \in ConcCalls : k.fn = "Attach"} :
       \E ords \in OrderSeqs(cl.flags) :
          ConcCommand(c, cl, Attach_Args(cl.image, cl.flags, ords))

ConcCreate(c) ==
    \E cl \in {k \in ConcCalls : k.fn = "Create"} :
       \E ords \in OrderSeqs(cl.flags) :
          ConcCommand(c, cl,
                      Create_Args(cl.image, cl.sizeSpec, cl.flags, ords))

\* cmd.Run / cmd.CombinedOutput starts the process with cmd.Args and blocks
ConcRun(c) ==
    /\ conc[c].pc = "built"
    /\ conc' = [conc EXCEPT ![c] =
                  [@ EXCEPT !.pc = "wait", !.argv = conc[c].Args,
                            !.proc = [state |-> "started", status |-> 0,
                                      out |-> ""],
                            !.overlapped = @ \/ Overlaps(c)]]
    /\ UNCHANGED <<cmdVars, encVars, nodeVars, mainVars>>

ConcProcStartFails(c) ==
    /\ conc[c].pc = "wait" /\ conc[c].proc.state = "started"
    /\ conc' = [conc EXCEPT ![c].proc.state = "nostart"]
    /\ UNCHANGED <<cmdVars, encVars, nodeVars, mainVars>>

ConcProcExits(c, status, out) ==
    /\ conc[c].pc = "wait" /\ conc[c].proc.state = "started"
    /\ conc' = [conc EXCEPT ![c].proc =
                  [state |-> "exited", status |-> status, out |-> out]]
    /\ UNCHANGED <<cmdVars, encVars, nodeVars, mainVars>>

ConcReturn(c, r) ==
    /\ conc' = [conc EXCEPT ![c].ret = r, ![c].pc = "returned"]
    /\ UNCHANGED <<cmdVars, encVars, nodeVars, mainVars>>

ConcAttachReturn(c) ==
    /\ conc[c].pc = "wait" /\ conc[c].call.fn = "Attach"
    /\ conc[c].proc.state \in {"nostart", "exited"}
    /\ LET err == runError(conc[c].proc)
           out == conc[c].proc.out
       IN  IF err # Nil
           THEN ConcReturn(c, [node |-> "", err |-> (err \o ": ") \o out])
           ELSE ConcReturn(c, [node |-> attachRe_Find(out), err |-> Nil])

ConcCreateReturn(c) ==
    /\ conc[c].pc = "wait" /\ conc[c].call.fn = "Create"
    /\ conc[c].proc.state \in {"nostart", "exited"}
    /\ ConcReturn(c, [node |-> "", err |-> runError(conc[c].proc)])

InitConc ==
    /\ CmdOff /\ EncOff /\ NodeOff /\ MainOff
    /\ conc = [c \in Callers |-> [NoCaller EXCEPT !.pc = "idle"]]

NextConc ==
    \E c \in Callers :
       \/ ConcAttach(c)
       \/ ConcCreate(c)
       \/ ConcRun(c)
       \/ ConcProcStartFails(c)
       \/ \E out \in {SampleAttachOutput, "/dev/disk5\n"} :
             ConcProcExits(c, 0, out)
       \/ \E out \in ErrorOutputs : ConcProcExits(c, 1, out)
       \/ ConcAttachReturn(c)
       \/ ConcCreateReturn(c)

SpecConc == InitConc /\ [][NextConc]_vars

(***************************************************************************)
(* The example programs.  "example" is the main of the package example     *)
(* (Create, os.Stat, defer os.RemoveAll, Attach, log, Detach) and           *)
(* "go-hdiutil" the main of cmd/go-hdiutil (Attach, log, Detach, Create,    *)
(* filepath.Glob, defer).  The tool's outcomes are the environment's.       *)
(***************************************************************************)
Programs == {"example", "go-hdiutil"}

\* the statement that follows step in the main of name
MainAfter(name, step) ==
    IF name = "example"
    THEN CASE step = "create" -> "stat"
           [] step = "stat" -> "defer"
           [] step = "defer" -> "attach"
           [] step = "attach" -> "log"
           [] step = "log" -> "detach"
           [] step = "detach" -> "return"
    ELSE CASE step = "attach" -> "log"
           [] step = "log" -> "detach"
           [] step = "detach" -> "create"
           [] step = "create" -> "stat"
           [] step = "stat" -> "defer"
           [] step = "defer" -> "return"

\* log.Fatal(err): os.Exit(1), deferred functions are not run
Fatal(err) == prog' = [prog EXCEPT !.pc = "exited", !.err = err, !.status = 1]

\* if err := hdiutil.Create("test", ...); err != nil { log.Fatal(err) }
MainCreate(ok) ==
    /\ prog.pc = "create"
    /\ IF ok
       THEN prog' = [prog EXCEPT !.pc = MainAfter(prog.name, "create"),
                                 !.exists = TRUE, !.created = TRUE]
       ELSE Fatal("exit status 1")
    /\ UNCHANGED <<cmdVars, encVars, nodeVars, concVars>>

\* if _, err := os.Stat(image); err != nil { log.Fatal(err) }; in go-hdiutil
\* filepath.Glob("test.*"), which fails on a malformed pattern only
MainStat(ok) ==
    /\ prog.pc = "stat"
    /\ ok \/ prog.name = "example"
    /\ IF ok
       THEN prog' = [prog EXCEPT !.pc = MainAfter(prog.name, "stat")]
       ELSE Fatal("stat test.sparsebundle: permission denied")
    /\ UNCHANGED <<cmdVars, encVars, nodeVars, concVars>>

\* defer os.RemoveAll(image)
MainDefer ==
    /\ prog.pc = "defer"
    /\ prog' = [prog EXCEPT !.pc = MainAfter(prog.name, "defer"),
                            !.deferred = TRUE]
    /\ UNCHANGED <<cmdVars, encVars, nodeVars, concVars>>

\* deviceNode, err := hdiutil.Attach(image, ...); if err != nil { log.Fatal }
MainAttach(status, out) ==
    /\ prog.pc = "attach"
    /\ IF status = 0
       THEN prog' = [prog EXCEPT !.pc = MainAfter(prog.name, "attach"),
                                 !.attached = TRUE, !.out = out,
                                 !.deviceNode = attachRe_Find(out)]
       ELSE Fatal(("exit status " \o Itoa(status) \o ": ") \o out)
    /\ UNCHANGED <<cmdVars, encVars, nodeVars, concVars>>

\* log.Println(hdiutil.RawDeviceNode(deviceNode));
\* log.Println(hdiutil.DeviceNumber(deviceNode))
MainLog ==
    /\ prog.pc = "log"
    /\ prog' = [prog EXCEPT !.pc = MainAfter(prog.name, "log"),
                            !.logged = <<RawDeviceNode(prog.deviceNode),
                                         Itoa(DeviceNumber(prog.deviceNode))>>]
    /\ UNCHANGED <<cmdVars, encVars, nodeVars, concVars>>

\* if err := hdiutil.Detach(deviceNode); err != nil { log.Fatal(err) }
MainDetach(ok) ==
    /\ prog.pc = "detach"
    /\ LET called == [prog EXCEPT !.detached = Append(@, prog.deviceNode)]
       IN  IF ok
           THEN prog' = [called EXCEPT !.pc = MainAfter(prog.name, "detach")]
           ELSE prog' = [called EXCEPT !.pc = "exited",
                                       !.err = "exit status 1", !.status = 1]
    /\ UNCHANGED <<cmdVars, encVars, nodeVars, concVars>>

\* main returns: the deferred function removes the image
MainReturn ==
    /\ prog.pc = "return"
    /\ prog' = [prog EXCEPT !.pc = "exited",
                            !.exists = IF prog.deferred THEN FALSE ELSE @]
    /\ UNCHANGED <<cmdVars, encVars, nodeVars, concVars>>

InitMain ==
    /\ CmdOff /\ EncOff /\ NodeOff /\ ConcOff
    /\ \E name \in Programs :
          prog = [NoProg EXCEPT !.name = name,
                                !.pc = IF name = "example" THEN "create"
                                       ELSE "attach"]

NextMain ==
    \/ \E ok \in BOOLEAN : MainCreate(ok)
    \/ \E ok \in BOOLEAN : MainStat(ok)
    \/ MainDefer
    \/ \E out \in Outputs : MainAttach(0, out)
    \/ \E out \in ErrorOutputs : MainAttach(1, out)
    \/ MainLog
    \/ \E ok \in BOOLEAN : MainDetach(ok)
    \/ MainReturn

SpecMain == InitMain /\ [][NextMain]_vars

(***************************************************************************)
(* Properties of the verb operations.                                       *)
(***************************************************************************)
\* the command has been built (the operation is blocked in it or is back)
Built == pc \in {"wait", "returned"}

\* the argument vector of the process: cmd.Args without the program path
Argv == Tail(Args)

\* the verb and the positional values of the call in progress
Positional ==
    CASE call.fn = "Attach" -> <<"attach", call.image>>
      [] call.fn = "Verify" -> <<"verify", call.image>>
      [] call.fn = "Detach" -> <<"detach", call.deviceNode>>
      [] call.fn = "Makehybrid" -> <<"makehybrid", call.image, call.source>>
      [] call.fn = "Create" ->
            (<<"create">> \o sizeFlag(call.sizeSpec)) \o <<call.image>>
      [] call.fn = "Convert" ->
            (<<"convert", call.image>> \o call.format) \o <<call.outfile>>

VerbOf ==
    CASE call.fn = "Attach" -> "attach"
      [] call.fn = "Verify" -> "verify"
      [] call.fn = "Detach" -> "detach"
      [] call.fn = "Makehybrid" -> "makehybrid"
      [] call.fn = "Create" -> "create"
      [] call.fn = "Convert" -> "convert"

\* where the tokens of option i start in Argv, given the encodings toks
RECURSIVE TokensBefore(_, _)
TokensBefore(toks, i) ==
    IF i <= 1 THEN 0 ELSE TokensBefore(toks, i - 1) + Len(toks[i - 1])

\* C1: for every verb the argument vector is the verb, the positional values
\* of that verb, then the encoded tokens of every supplied option, each
\* option's tokens standing as one block at the place the caller gave the
\* option: none dropped, merged or moved, duplicates and family clashes too.
C1_ArgsInCallerOrder ==
    Built =>
        \E ords \in OrderSeqs(call.flags) :
            LET n == Len(call.flags)
                toks == [i \in 1..n |->
                            flagTokens(VerbOf, call.flags[i], ords[i])]
                base == Len(Positional)
            IN  /\ SubSeq(Argv, 1, base) = Positional
                /\ Len(Argv) = base + TokensBefore(toks, n + 1)
                /\ \A i \in 1..n :
                      SubSeq(Argv, base + TokensBefore(toks, i) + 1,
                             base + TokensBefore(toks, i + 1)) = toks[i]

\* a Create call that names one file system twice with another between
C1_Witness ==
    /\ pc = "wait" /\ call.fn = "Create"
    /\ call.flags = <<Opt("createFS", CreateHFSPlus),
                      Opt("createFS", CreateAPFS),
                      Opt("createFS", CreateHFSPlus)>>
    /\ call.sizeSpec = Opt("CreateMegabytes", 20) /\ call.image = "test"
    /\ Argv = <<"create", "-megabytes", "20", "test", "-fs", "HFS+", "-fs",
                "APFS", "-fs", "HFS+">>

\* Create("test", CreateMegabytes(20), CreateHFSPlus, CreateSPARSEBUNDLE)
IsCreateScenario ==
    /\ Built /\ call.fn = "Create" /\ call.image = "test"
    /\ call.sizeSpec = Opt("CreateMegabytes", 20)
    /\ call.flags = <<Opt("createFS", CreateHFSPlus),
                      Opt("createType", CreateSPARSEBUNDLE)>>

\* C2 as stated: the Create scenario yields the vector with the image name
\* as its last token.
C2_ImageLast ==
    IsCreateScenario =>
        Argv = <<"create", "-megabytes", "20", "-fs", "HFS+", "-type",
                 "SPARSEBUNDLE", "test">>

\* C2: the Create scenario yields the vector with the image name right after
\* the size tokens and before the option tokens.
C2_ImageAfterSize ==
    IsCreateScenario =>
        Argv = <<"create", "-megabytes", "20", "test", "-fs", "HFS+", "-type",
                 "SPARSEBUNDLE">>

C2_Witness == IsCreateScenario /\ pc = "returned" /\ ret.err = Nil

\* the character of s at position i (from 1), "" outside s
CharAt(s, i) == IF i >= 1 /\ i <= Len(s) THEN SubSeq(s, i, i) ELSE ""

Contains(s, sub) ==
    \E i \in 1..Len(s) :
        i + Len(sub) - 1 <= Len(s) /\ SubSeq(s, i, i + Len(sub) - 1) = sub

\* "/dev/disk" and then n digits stand in s from position i on
NodeAt(s, i, n) ==
    /\ i + 8 + n <= Len(s)
    /\ SubSeq(s, i, i + 8) = "/dev/disk"
    /\ \A k \in 1..n : CharAt(s, i + 8 + k) \in DigitChars

\* node is the leftmost "/dev/disk" + digits of s with all its digits
IsFirstNode(s, node) ==
    \E i \in 1..Len(s), n \in 1..Len(s) :
        /\ NodeAt(s, i, n)
        /\ CharAt(s, i + 9 + n) \notin DigitChars
        /\ \A j \in 1..(i - 1) : ~NodeAt(s, j, 1)
        /\ node = SubSeq(s, i, i + 8 + n)

HasNode(s) == \E i \in 1..Len(s) : NodeAt(s, i, 1)

\* Attach("test.sparsebundle", AttachNoVerify, AttachNoAutoFsck,
\*        AttachMountPoint("./test"))
IsAttachScenario ==
    /\ Built /\ call.fn = "Attach" /\ call.image = "test.sparsebundle"
    /\ call.flags = <<Opt("attachVerify", FALSE),
                      Opt("attachAutoFsck", FALSE),
                      Opt("AttachMountPoint", "./test")>>

AttachScenarioArgv ==
    <<"attach", "test.sparsebundle", "-noverify", "-noautofsck",
      "-mountpoint", "./test">>

Succeeded == pc = "returned" /\ proc.state = "exited" /\ proc.status = 0

NodeResultIsDisk5 ==
    /\ ret.node = "/dev/disk5"
    /\ RawDeviceNode(ret.node) = "/dev/rdisk5"
    /\ DeviceNumber(ret.node) = 5

\* C3 as stated: the Attach scenario yields the given vector, and whenever
\* the process succeeds with output that contains "/dev/disk5" the node is
\* "/dev/disk5", its raw node "/dev/rdisk5" and its number 5.
C3_AnyOutputContaining ==
    IsAttachScenario =>
        /\ Argv = AttachScenarioArgv
        /\ (Succeeded /\ Contains(proc.out, "/dev/disk5")) => NodeResultIsDisk5

\* C3: the Attach scenario yields the given vector, and whenever the process
\* succeeds with output whose leftmost "/dev/disk" + digits is "/dev/disk5"
\* the node is "/dev/disk5", its raw node "/dev/rdisk5" and its number 5.
C3_FirstNodeIsDisk5 ==
    IsAttachScenario =>
        /\ Argv = AttachScenarioArgv
        /\ (Succeeded /\ IsFirstNode(proc.out, "/dev/disk5")) =>
               NodeResultIsDisk5

C3_Witness ==
    /\ IsAttachScenario /\ Succeeded
    /\ proc.out = "/dev/disk5s1 \n"
    /\ ret = [node |-> "/dev/disk5", err |-> Nil]

\* C4: when the process of Attach exits with status 0, Attach returns a nil
\* error and the leftmost "/dev/disk" + digits of the captured output, with
\* the whole run of digits that follows; it returns "" when the output has
\* no such substring.
C4_FirstLongestMatch ==
    (Succeeded /\ call.fn = "Attach") =>
        /\ ret.err = Nil
        /\ HasNode(proc.out) => IsFirstNode(proc.out, ret.node)
        /\ ~HasNode(proc.out) => ret.node = ""

\* the sample output gives "/dev/disk4"
C4_WitnessSample ==
    /\ Succeeded /\ call.fn = "Attach"
    /\ proc.out = SampleAttachOutput
    /\ ret = [node |-> "/dev/disk4", err |-> Nil]

\* a quiet attach that printed nothing gives "" and no error
C4_WitnessQuiet ==
    /\ Succeeded /\ call.fn = "Attach"
    /\ call.flags = <<Opt("quiet", TRUE)>>
    /\ proc.out = ""
    /\ ret = [node |-> "", err |-> Nil]

(***************************************************************************)
(* Properties of option encoding.                                           *)
(***************************************************************************)
Encoded == epc \in {"once", "twice"}

NegatableTypes ==
    {"attachKernel", "attachVerify", "attachIgnoreBadChecksums", "attachIdme",
     "atachIdmeReveal", "attachIdmeTrash", "attachAutoOpen",
     "attachAutoOpenRO", "attachAutoOpenRW", "attachAutoFsck",
     "createAutostretch", "createCrossdev", "createScrub", "createAnyowners"}

\* the flag name of each negatable option
NegatableName(t) ==
    CASE t = "attachKernel" -> "kernel"
      [] t = "attachVerify" -> "verify"
      [] t = "attachIgnoreBadChecksums" -> "ignoreBadChecksums"
      [] t = "attachIdme" -> "idme"
      [] t = "atachIdmeReveal" -> "idmereveal"
      [] t = "attachIdmeTrash" -> "idmetrash"
      [] t = "attachAutoOpen" -> "autoopen"
      [] t = "attachAutoOpenRO" -> "autoopenro"
      [] t = "attachAutoOpenRW" -> "autoopenrw"
      [] t = "attachAutoFsck" -> "autofsck"
      [] t = "createAutostretch" -> "autostretch"
      [] t = "createCrossdev" -> "crossdev"
      [] t = "createScrub" -> "scrub"
      [] t = "createAnyowners" -> "anyowners"

\* C5: a negatable boolean option encodes true as the one token "-<name>"
\* and false as the one token "-no<name>", never as nothing.
C5_NegatableBool ==
    (Encoded /\ eopt.type \in NegatableTypes) =>
        /\ etok1 # <<>>
        /\ etok1 = IF eopt.val THEN <<"-" \o NegatableName(eopt.type)>>
                   ELSE <<"-no" \o NegatableName(eopt.type)>>

C5_Witness ==
    /\ Encoded /\ eopt = Opt("attachVerify", FALSE) /\ eiface = "attachFlag"
    /\ etok1 = <<"-noverify">>

PlainBoolTypes == BoolTypes \ NegatableTypes

\* the plain boolean options the flag name of which is given
NamedPlainBoolTypes ==
    {"plist", "verbose", "quiet", "debug", "attachNotRemovable",
     "attachNoMount", "attachNoBrowse", "detachForce", "createOV",
     "createAttach", "createSkipunreadable", "createAtomic"}

PlainBoolName(t) ==
    CASE t = "plist" -> "plist"
      [] t = "verbose" -> "verbose"
      [] t = "quiet" -> "quiet"
      [] t = "debug" -> "debug"
      [] t = "attachNotRemovable" -> "notremovable"
      [] t = "attachNoMount" -> "nomount"
      [] t = "attachNoBrowse" -> "nobrowse"
      [] t = "detachForce" -> "force"
      [] t = "createOV" -> "ov"
      [] t = "createAttach" -> "attach"
      [] t = "createSkipunreadable" -> "skipunreadable"
      [] t = "createAtomic" -> "atomic"

\* tok is "-" and then a name
IsFlagToken(tok) == Len(tok) > 1 /\ SubSeq(tok, 1, 1) = "-"

C6_WitnessFalse ==
    /\ Encoded /\ eopt = Opt("detachForce", FALSE) /\ eiface = "detachFlag"
    /\ etok1 = <<>>

Decimal(i) ==
    CASE i = -15 -> "-15"
      [] i = 0 -> "0"
      [] i = 7 -> "7"
      [] i = 20 -> "20"
      [] i = 123 -> "123"

\* the display names of the enumeration members
DisplayName(t, v) ==
    CASE t = "EncryptionType" /\ v = AES128 -> "AES-128"
      [] t = "EncryptionType" /\ v = AES256 -> "AES-256"
      [] t = "createType" /\ v = CreateUDIF -> "UDIF"
      [] t = "createType" /\ v = CreateSPARSE -> "SPARSE"
      [] t = "createType" /\ v = CreateSPARSEBUNDLE -> "SPARSEBUNDLE"
      [] t = "createFS" /\ v = CreateHFSPlus -> "HFS+"
      [] t = "createFS" /\ v = CreateHFSPlusJ -> "HFS+J"
      [] t = "createFS" /\ v = CreateJHFSPlus -> "JHFS+"
      [] t = "createFS" /\ v = CreateHFSX -> "HFSX"
      [] t = "createFS" /\ v = CreateJHFSPlusX -> "JHFS+X"
      [] t = "createFS" /\ v = CreateAPFS -> "APFS"
      [] t = "createFS" /\ v = CreateFAT32 -> "FAT32"
      [] t = "createFS" /\ v = CreateExFAT -> "ExFAT"
      [] t = "createFS" /\ v = CreateUDF -> "UDF"

\* the payload of a string, integer or enumeration option as a token
PayloadToken(o) ==
    CASE o.type \in StringTypes -> o.val
      [] o.type \in IntTypes -> Decimal(o.val)
      [] o.type \in EnumTypes -> DisplayName(o.type, o.val)

\* the string, integer and enumeration options the flag name of which is
\* given
NamedPayloadTypes ==
    {"AttachMountPoint", "Shadow", "Recover", "CreateVolname", "CreateSize",
     "CreateMegabytes", "CreateUID", "ConvertAlign", "ConvertTasks",
     "EncryptionType", "createFS", "createType"}

PayloadFlagName(t) ==
    CASE t = "AttachMountPoint" -> "mountpoint"
      [] t = "Shadow" -> "shadow"
      [] t = "Recover" -> "recover"
      [] t = "CreateVolname" -> "volname"
      [] t = "CreateSize" -> "size"
      [] t = "CreateMegabytes" -> "megabytes"
      [] t = "CreateUID" -> "uid"
      [] t = "ConvertAlign" -> "align"
      [] t = "ConvertTasks" -> "tasks"
      [] t = "EncryptionType" -> "encryption"
      [] t = "createFS" -> "fs"
      [] t = "createType" -> "type"

\* C7: a string, integer or enumeration option encodes as exactly two
\* tokens, "-<flag name>" first and the payload second (an integer in
\* decimal, with its sign); the two never change places.
C7_PayloadSecond ==
    (Encoded /\ eopt.type \in StringTypes \cup IntTypes \cup EnumTypes) =>
        /\ Len(etok1) = 2
        /\ IsFlagToken(etok1[1])
        /\ etok1[2] = PayloadToken(eopt)
        /\ etok1[1] # "-" \o PayloadToken(eopt)
        /\ eopt.type \in NamedPayloadTypes =>
               etok1[1] = "-" \o PayloadFlagName(eopt.type)

C7_WitnessInt ==
    /\ Encoded /\ eopt = Opt("CreateUID", -15) /\ eiface = "createFlag"
    /\ etok1 = <<"-uid", "-15">>

C7_WitnessString ==
    /\ Encoded /\ eopt = Opt("AttachMountPoint", "./test")
    /\ etok1 = <<"-mountpoint", "./test">>

MapFlagName(t) ==
    CASE t = "Srcimagekey" -> "srcimagekey"
      [] t = "Tgtimagekey" -> "tgtimagekey"
      [] t = "Imagekey" -> "imagekey"

\* C8: a key/value option that holds the one entry k -> v encodes, under
\* every verb it supports, as the two tokens "-<name>" and "k=v".
C8_SingleEntryMap ==
    (Encoded /\ eopt.type \in MapTypes) =>
        \A k \in DOMAIN eopt.val :
            DOMAIN eopt.val = {k} =>
                etok1 = <<"-" \o MapFlagName(eopt.type),
                          (k \o "=") \o eopt.val[k]>>

C8_Witness ==
    /\ Encoded /\ eopt.type = "Tgtimagekey" /\ eiface = "convertFlag"
    /\ DOMAIN eopt.val = {"k2"} /\ eopt.val["k2"] = "v1"
    /\ etok1 = <<"-tgtimagekey", "k2=v1">>

\* C9: two encodings of one option value yield the same tokens, key/value
\* options of two or more entries included.
C9_Deterministic == epc = "twice" => etok1 = etok2

(***************************************************************************)
(* Properties of the device-node helpers.                                   *)
(***************************************************************************)
\* "disk" stands in s from position i on
DiskAt(s, i) == i + 3 <= Len(s) /\ SubSeq(s, i, i + 3) = "disk"

\* s consists of decimal digits only
OnlyDigits(s) == \A i \in 1..Len(s) : CharAt(s, i) \in DigitChars

\* C10: RawDeviceNode puts "rdisk" in place of the first "disk" of its
\* argument and leaves the rest as it is, so "/dev/disk" + digits becomes
\* "/dev/rdisk" + digits; an argument without "disk" comes back unchanged.
C10_FirstDiskOnly ==
    dpc \in {"raw", "num"} =>
        /\ (\A i \in 1..Len(dnode) : ~DiskAt(dnode, i)) => draw = dnode
        /\ \A i \in 1..Len(dnode) :
              (DiskAt(dnode, i) /\ \A j \in 1..(i - 1) : ~DiskAt(dnode, j)) =>
                  draw = (SubSeq(dnode, 1, i - 1) \o "rdisk")
                             \o SubSeq(dnode, i + 4, Len(dnode))
        /\ (Len(dnode) >= 9 /\ SubSeq(dnode, 1, 9) = "/dev/disk"
            /\ OnlyDigits(SubSeq(dnode, 10, Len(dnode)))) =>
               draw = "/dev/rdisk" \o SubSeq(dnode, 10, Len(dnode))

\* an argument with two "disk"s: only the first is replaced
C10_Witness ==
    /\ dpc = "raw" /\ dnode = "/dev/disk5disk"
    /\ draw = "/dev/rdisk5disk"

\* what is left of dnode once one leading "/dev/disk" is taken off
Remainder ==
    IF Len(dnode) >= 9 /\ SubSeq(dnode, 1, 9) = "/dev/disk"
    THEN SubSeq(dnode, 10, Len(dnode))
    ELSE dnode

DigitValue(ch) ==
    CASE ch = "0" -> 0 [] ch = "1" -> 1 [] ch = "2" -> 2 [] ch = "3" -> 3
      [] ch = "4" -> 4 [] ch = "5" -> 5 [] ch = "6" -> 6 [] ch = "7" -> 7
      [] ch = "8" -> 8 [] ch = "9" -> 9

RECURSIVE Pow10(_)
Pow10(k) == IF k = 0 THEN 1 ELSE 10 * Pow10(k - 1)

\* the value of the digit string s as the sum of its digits by place
RECURSIVE PlaceSum(_, _)
PlaceSum(s, i) ==
    IF i > Len(s) THEN 0
    ELSE DigitValue(CharAt(s, i)) * Pow10(Len(s) - i) + PlaceSum(s, i + 1)

\* the number of zeros s starts with
LeadingZeros(s) ==
    IF \A i \in 1..Len(s) : CharAt(s, i) = "0" THEN Len(s)
    ELSE (CHOOSE i \in 1..Len(s) :
              CharAt(s, i) # "0" /\ \A j \in 1..(i - 1) : CharAt(s, j) = "0") - 1

\* the digits of s that count: s without its leading zeros
Significant(s) == SubSeq(s, LeadingZeros(s) + 1, Len(s))

\* s is a digit string, with or without one sign before it
IsSignedDigits(s) ==
    \/ s # "" /\ OnlyDigits(s)
    \/ Len(s) > 1 /\ CharAt(s, 1) \in {"-", "+"}
                  /\ OnlyDigits(SubSeq(s, 2, Len(s)))

\* C11: DeviceNumber takes one leading "/dev/disk" off its argument and
\* returns the decimal value of the rest when the rest is a digit string in
\* the range of int, and 0 when the rest does not parse as an integer: no
\* digits, other characters, or digits too many for an int.
C11_DeviceNumber ==
    dpc = "num" =>
        /\ (Remainder # "" /\ OnlyDigits(Remainder)
            /\ Len(Significant(Remainder)) <= 9) =>
               dnum = PlaceSum(Significant(Remainder), 1)
        /\ ~IsSignedDigits(Remainder) => dnum = 0
        /\ (Remainder # "" /\ OnlyDigits(Remainder)
            /\ Len(Significant(Remainder)) >= 20) => dnum = 0
        /\ dnode = "/dev/disk12" => dnum = 12
        /\ dnode \in {"not-a-device", "/dev/disk4s1", ""} => dnum = 0

C11_Witness == dpc = "num" /\ dnode = "/dev/disk012" /\ dnum = 12

\* digits too many for an int give 0
C11_WitnessRange ==
    dpc = "num" /\ dnode = "/dev/disk99999999999999999999" /\ dnum = 0

\* C12: DeviceNumber never returns a negative number, and a remainder that
\* starts with a sign is a parse failure that gives 0.
C12_NonNegative ==
    dpc = "num" =>
        /\ dnum >= 0
        /\ (Remainder # "" /\ CharAt(Remainder, 1) \in {"-", "+"}) => dnum = 0

(***************************************************************************)
(* Properties of the execution of the verb operations.                      *)
(***************************************************************************)
\* the operation is back and its process ran to an exit
ReturnedAfterExit == pc = "returned" /\ proc.state = "exited"

\* C13: for every verb, a process that exits with a status other than zero
\* makes the operation return an error that carries the text the process
\* printed, not the exit status alone; a process that exits with status zero
\* makes it return no error.
C13_ErrorTextAttached ==
    ReturnedAfterExit =>
        /\ proc.status = 0 => ret.err = Nil
        /\ proc.status # 0 =>
               /\ ret.err # Nil
               /\ proc.out # "" => Contains(ret.err, proc.out)

\* the verbs that take an image path
ImageVerbs == {"Attach", "Create", "Verify", "Convert", "Makehybrid"}

\* C14: an operation that takes an image path and is called with the empty
\* path starts no process.
C14_EmptyImageNotRun ==
    (call.fn \in ImageVerbs /\ call.image = "") => proc.state = "none"

\* C15: a call of a verb operation starts its process once and does nothing
\* else outside the program: after a failure there is no second start and
\* no step that undoes what the failed command did.
C15_ExecutedOnce ==
    /\ Built => effects = <<"exec">>
    /\ (pc = "returned" /\ ret.err # Nil) =>
           /\ effects = <<"exec">>
           /\ proc.state \in {"exited", "nostart"}

\* a Create that failed and is back
C15_Witness ==
    /\ pc = "returned" /\ call.fn = "Create"
    /\ proc.state = "exited" /\ proc.status = 1
    /\ ret.err = "exit status 1"
    /\ effects = <<"exec">>

\* a step by which an operation returns
ReturnStep ==
    \/ AttachReturn
    \/ CreateReturn
    \/ ConvertReturn
    \/ DetachReturn
    \/ VerifyReturn
    \/ MakehybridReturn

\* C16: a verb operation is back only when its process has ended or could
\* not be started; while the process runs the operation cannot return (no
\* timeout, no cancellation), and once the process has ended it can.
C16_Synchronous ==
    /\ pc = "returned" => proc.state \in {"exited", "nostart"}
    /\ (pc = "wait" /\ proc.state = "started") => ~ENABLED ReturnStep
    /\ (pc = "wait" /\ proc.state \in {"exited", "nostart"}) =>
           ENABLED ReturnStep

\* a Detach blocked on a process that still runs
C16_Witness ==
    /\ pc = "wait" /\ call.fn = "Detach" /\ proc.state = "started"
    /\ ~ENABLED ReturnStep

(***************************************************************************)
(* Properties of the enumerations and of the pair-valued options.           *)
(***************************************************************************)
\* the name of each file-system and encryption constant
FamilyName(t, v) ==
    CASE t = "createFS" /\ v = CreateHFSPlus -> "HFS+"
      [] t = "createFS" /\ v = CreateHFSPlusJ -> "HFS+J"
      [] t = "createFS" /\ v = CreateJHFSPlus -> "JHFS+"
      [] t = "createFS" /\ v = CreateHFSX -> "HFSX"
      [] t = "createFS" /\ v = CreateJHFSPlusX -> "JHFS+X"
      [] t = "createFS" /\ v = CreateAPFS -> "APFS"
      [] t = "createFS" /\ v = CreateFAT32 -> "FAT32"
      [] t = "createFS" /\ v = CreateExFAT -> "ExFAT"
      [] t = "createFS" /\ v = CreateUDF -> "UDF"
      [] t = "EncryptionType" /\ v = AES128 -> "AES-128"
      [] t = "EncryptionType" /\ v = AES256 -> "AES-256"

\* C18: a file-system constant encodes for Create as "-fs" and its name, an
\* encryption constant as "-encryption" and its name, and no other constant
\* of the same family encodes to the same name.
C18_FamilyNames ==
    (Encoded /\ eopt.type \in {"createFS", "EncryptionType"}) =>
        /\ etok1 = <<IF eopt.type = "createFS" THEN "-fs" ELSE "-encryption",
                     FamilyName(eopt.type, eopt.val)>>
        /\ \A w \in Members(eopt.type) \ {eopt.val} :
              encode(Opt(eopt.type, w), eiface, <<>>)[2] # etok1[2]

C18_Witness ==
    /\ Encoded /\ eopt = Opt("createFS", CreateHFSPlusJ)
    /\ eiface = "createFlag"
    /\ etok1 = <<"-fs", "HFS+J">>

\* C19: whenever Convert can be called, every image-format constant can be
\* passed as its format argument (to be encoded between image and outfile).
C19_FormatConstantsAccepted ==
    Free => \A c \in ConvertFormats :
                Opt("convertFormot", c) \in FormatArguments

\* C20: AttachDrivekey{key, value} encodes for Attach as the two tokens
\* "-drivekey" and "key=value", the flag name first.
C20_DrivekeyNameFirst ==
    (Encoded /\ eopt.type = "AttachDrivekey" /\ eiface = "attachFlag") =>
        etok1 = <<"-drivekey", (eopt.val[1] \o "=") \o eopt.val[2]>>

(***************************************************************************)
(* Properties of concurrent calls.                                          *)
(***************************************************************************)
\* the argument vectors the call builds when it runs alone
AloneArgs(cl) ==
    IF cl.fn = "Attach"
    THEN {Attach_Args(cl.image, cl.flags, ords) : ords \in OrderSeqs(cl.flags)}
    ELSE {Create_Args(cl.image, cl.sizeSpec, cl.flags, ords) :
             ords \in OrderSeqs(cl.flags)}

\* r is what the call returns when it runs alone and its process ends as p
IsAloneResult(cl, p, r) ==
    LET err == IF p.state = "nostart"
               THEN "fork/exec /usr/bin/hdiutil: no such file or directory"
               ELSE IF p.status = 1 THEN "exit status 1"
               ELSE Nil
    IN  IF cl.fn = "Create" THEN r = [node |-> "", err |-> err]
        ELSE IF err # Nil
        THEN r = [node |-> "", err |-> (err \o ": ") \o p.out]
        ELSE /\ r.err = Nil
             /\ IF HasNode(p.out) THEN IsFirstNode(p.out, r.node)
                ELSE r.node = ""

\* C17: whatever the interleaving of concurrent calls, each call passes to
\* its process the argument vector it builds alone from its own arguments,
\* and returns the results it returns alone for its own process's output.
C17_NoSharedState ==
    \A c \in Callers :
       /\ conc[c].pc \in {"wait", "returned"} =>
             conc[c].argv \in AloneArgs(conc[c].call)
       /\ conc[c].pc = "returned" =>
             IsAloneResult(conc[c].call, conc[c].proc, conc[c].ret)

C17_Witness ==
    /\ conc[1].pc = "returned" /\ conc[2].pc = "returned"
    /\ conc[1].overlapped /\ conc[2].overlapped
    /\ conc[1].call.fn = "Attach" /\ conc[1].ret.node = "/dev/disk4"
    /\ conc[2].call.fn = "Attach" /\ conc[2].call # conc[1].call
    /\ conc[2].ret.node = "/dev/disk5"

\* C21: AttachSection{a, b} encodes for Attach as "-section" followed by a
\* sub-specification built from a and b, so values with different payloads
\* encode differently.
C21_SectionFromPayload ==
    (Encoded /\ eopt.type = "AttachSection" /\ eiface = "attachFlag") =>
        /\ Len(etok1) = 2 /\ etok1[1] = "-section"
        /\ \A w \in Payloads("AttachSection") \ {eopt.val} :
              encode(Opt("AttachSection", w), eiface, <<>>) # etok1

\* C22: for Verify, VerifyCache encodes as the one token "-cache" and
\* VerifyNoCache as the one token "-nocache".
C22_VerifyCacheTokens ==
    (Encoded /\ eopt.type = "verifyCache" /\ eiface = "verifyFlag") =>
        etok1 = IF eopt.val THEN <<"-cache">> ELSE <<"-nocache">>

\* C23: whenever Attach can be called, AttachReadonly and AttachReadWrite can
\* be passed among its flags, and they stand for the single tokens
\* "-readonly" and "-readwrite".
C23_ReadWriteModeAccepted ==
    Free => /\ Opt("attachRWType", AttachReadonly) \in AttachArguments
            /\ Opt("attachRWType", AttachReadWrite) \in AttachArguments
            /\ attachRWType_attachFlag(AttachReadonly) = "-readonly"
            /\ attachRWType_attachFlag(AttachReadWrite) = "-readwrite"

(***************************************************************************)
(* Properties of the example programs.                                      *)
(***************************************************************************)
\* C24: in the example programs Detach is invoked only after an Attach that
\* returned no error, with exactly the device node Attach returned, and
\* never with an empty device node.
C24_DetachAfterCheckedAttach ==
    \A i \in 1..Len(prog.detached) :
        /\ prog.attached
        /\ prog.detached[i] = prog.deviceNode
        /\ prog.detached[i] # ""

\* C30: in the example that creates, attaches and detaches an image, once
\* Create has succeeded the image is gone whenever the program has ended.
C30_ImageRemovedOnEveryPath ==
    (prog.name = "example" /\ prog.created /\ prog.pc = "exited") =>
        ~prog.exists

(***************************************************************************)
(* The results of Attach as arguments of the device-node helpers.           *)
(***************************************************************************)
\* the characters of node after its first nine
NodeDigits(node) == SubSeq(node, 10, Len(node))

\* C25: Attach returns ("", error) when the process did not start or exited
\* non-zero, whatever it printed, and otherwise (node, nil) with node empty
\* or "/dev/disk" followed by digits; for such a node RawDeviceNode gives
\* "/dev/rdisk" and the same digits and DeviceNumber the value of the digits.
C25_AttachResultShapes ==
    (pc = "returned" /\ call.fn = "Attach") =>
        IF proc.state = "nostart" \/ proc.status # 0
        THEN ret.node = "" /\ ret.err # Nil
        ELSE /\ ret.err = Nil
             /\ ret.node # "" =>
                  /\ Len(ret.node) > 9
                  /\ SubSeq(ret.node, 1, 9) = "/dev/disk"
                  /\ OnlyDigits(NodeDigits(ret.node))
                  /\ RawDeviceNode(ret.node)
                        = "/dev/rdisk" \o NodeDigits(ret.node)
                  /\ Len(Significant(NodeDigits(ret.node))) <= 9 =>
                        DeviceNumber(ret.node)
                           = PlaceSum(Significant(NodeDigits(ret.node)), 1)

C25_Witness ==
    /\ pc = "returned" /\ call.fn = "Attach"
    /\ proc.status = 1 /\ proc.out = "/dev/disk4 busy\n"
    /\ ret.node = ""

C25_WitnessNode ==
    /\ pc = "returned" /\ call.fn = "Attach"
    /\ ret.err = Nil /\ ret.node = "/dev/disk45"
    /\ DeviceNumber(ret.node) = 45

(***************************************************************************)
(* Properties of the Makehybrid options and of the exported constants.      *)
(***************************************************************************)
\* the flag of hdiutil makehybrid that each option type is named after
HyphenatedName(t) ==
    CASE t = "makehybridHFS" -> "hfs"
      [] t = "makehybridISO" -> "iso"
      [] t = "makehybridJoliet" -> "joliet"
      [] t = "makehybridUDF" -> "udf"
      [] t = "makehybridHFSBlessedDirectory" -> "hfs-blessed-directory"
      [] t = "makehybridHFSOpenfolder" -> "hfs-openfolder"
      [] t = "makehybridHFSStartupfileSize" -> "hfs-startupfile-size"
      [] t = "makehybridAbstractFile" -> "abstract-file"
      [] t = "makehybridBibliographyFile" -> "bibliography-file"
      [] t = "makehybridCopyrightFile" -> "copyright-file"
      [] t = "makehybridApplication" -> "application"
      [] t = "makehybridPreparer" -> "preparer"
      [] t = "makehybridPublisher" -> "publisher"
      [] t = "makehybridSystemID" -> "system-id"
      [] t = "makehybridKeepMacSpecific" -> "keep-mac-specific"
      [] t = "makehybridEltoritoBoot" -> "eltorito-boot"
      [] t = "makehybridHardDiskBoot" -> "hard-disk-boot"
      [] t = "makehybridNoEmulBoot" -> "no-emul-boot"
      [] t = "makehybridNoBoot" -> "no-boot"
      [] t = "makehybridBootLoadSeg" -> "boot-load-seg"
      [] t = "makehybridBootLoadSize" -> "boot-load-size"
      [] t = "makehybridEltoritoPlatform" -> "eltorito-platform"
      [] t = "makehybridEltoritoSpecification" -> "eltorito-specification"
      [] t = "makehybridUDFVersion" -> "udf-version"
      [] t = "makehybridDefaultVolumeName" -> "default-volume-name"
      [] t = "makehybridHFSVolumeName" -> "hfs-volume-name"
      [] t = "makehybridISOVolumeName" -> "iso-volume-name"
      [] t = "makehybridJolietVolumeName" -> "joliet-volume-name"
      [] t = "makehybridUDFVolumeName" -> "udf-volume-name"
      [] t = "makehybridHideAll" -> "hide-all"
      [] t = "makehybridHideHFS" -> "hide-hfs"
      [] t = "makehybridHideISO" -> "hide-iso"
      [] t = "makehybridHideJoliet" -> "hide-joliet"
      [] t = "makehybridHideUDF" -> "hide-udf"
      [] t = "makehybridOnlyUDF" -> "only-udf"
      [] t = "makehybridOnlyISO" -> "only-iso"
      [] t = "makehybridOnlyJoliet" -> "only-joliet"
      [] t = "makehybridPrintSize" -> "print-size"
      [] t = "makehybridPlistin" -> "plistin"

\* an exported constant of a Makehybrid option type has been encoded
MakehybridConstantEncoded ==
    /\ Encoded /\ eiface = "makehybridFlag"
    /\ eopt.type \in MakehybridOnlyTypes /\ eopt.val

\* C26: the exported Makehybrid option constants encode to flag names that
\* differ from one type to the other, each "-" and the hyphenated form of
\* its own name.
C26_MakehybridDistinctNames ==
    MakehybridConstantEncoded =>
        /\ etok1[1] = "-" \o HyphenatedName(eopt.type)
        /\ \A t \in MakehybridOnlyTypes \ {eopt.type} :
              encode(Opt(t, TRUE), eiface, <<>>) # etok1

\* C27: every exported option constant encodes to one token or more.
C27_ConstantsChangeCommand ==
    (Encoded /\ eopt \in ExportedConstants) => etok1 # <<>>

\* C28: a key/value map option encodes as two tokens whatever the number
\* of its entries: its flag name and, for an empty map, the empty string,
\* otherwise "k=v" for exactly one entry of the map.
C28_MapOneEntryEncoded ==
    (Encoded /\ eopt.type \in MapTypes) =>
        /\ Len(etok1) = 2
        /\ etok1[1] = "-" \o MapFlagName(eopt.type)
        /\ IF DOMAIN eopt.val = {} THEN etok1[2] = ""
           ELSE Cardinality({k \in DOMAIN eopt.val :
                               etok1[2] = (k \o "=") \o eopt.val[k]}) = 1

C28_Witness ==
    /\ Encoded /\ eopt.type = "Srcimagekey" /\ eiface = "attachFlag"
    /\ DOMAIN eopt.val = {"k1", "k3"}
    /\ etok1 = <<"-srcimagekey", "k3=v2">>

C28_WitnessEmpty ==
    /\ Encoded /\ eopt.type = "Imagekey" /\ DOMAIN eopt.val = {}
    /\ etok1 = <<"-imagekey", "">>

\* the Makehybrid options whose documentation describes a value
ValuedMakehybridTypes ==
    {"makehybridHFSBlessedDirectory", "makehybridHFSOpenfolder",
     "makehybridHFSStartupfileSize", "makehybridAbstractFile",
     "makehybridBibliographyFile", "makehybridCopyrightFile",
     "makehybridApplication", "makehybridPreparer", "makehybridPublisher",
     "makehybridSystemID", "makehybridEltoritoBoot",
     "makehybridBootLoadSeg", "makehybridBootLoadSize",
     "makehybridEltoritoPlatform", "makehybridEltoritoSpecification",
     "makehybridUDFVersion", "makehybridDefaultVolumeName",
     "makehybridHFSVolumeName", "makehybridISOVolumeName",
     "makehybridJolietVolumeName", "makehybridUDFVolumeName",
     "makehybridHideAll", "makehybridHideHFS", "makehybridHideISO",
     "makehybridHideJoliet", "makehybridHideUDF", "makehybridOnlyUDF",
     "makehybridOnlyISO", "makehybridOnlyJoliet"}

\* C29: a Makehybrid option documented as carrying a value encodes as its
\* flag token followed by the value token.
C29_MakehybridValuePassed ==
    (MakehybridConstantEncoded /\ eopt.type \in ValuedMakehybridTypes) =>
        /\ Len(etok1) = 2
        /\ SubSeq(etok1[1], 1, 1) = "-"

=============================================================================
